---------------------------- MODULE Spec2Model ----------------------------
(***************************************************************************)
(* Model of the Rossmann preprocessing notebook (src/unnamed/part_000).    *)
(*                                                                         *)
(* A dataframe is a record [cols, rows]: cols is the sequence of column    *)
(* labels (strings, duplicates possible as in pandas), rows the sequence   *)
(* of rows, each a sequence of cells aligned with cols.  A cell is <<>>    *)
(* when missing (NaN / NaT / None) and <<v>> when it holds the value v.    *)
(***************************************************************************)
EXTENDS Integers, Sequences, FiniteSets, TLC

VARIABLES
    \* ---- LeftMerger.merge, cell 8 ----
    mpc,        \* "new": accessor constructed; "merged": merge has returned
    obj,        \* LeftMerger._obj, the left dataframe
    mright,     \* the `right` argument of the last merge call
    mleft_on,   \* the `left_on` argument (list of labels)
    mright_on,  \* the `right_on` argument (list of labels, <<>> for None)
    msuffix,    \* the `suffix` argument (<<>> for None, <<s>> for the string s)
    mresult,    \* the dataframe returned by merge
    \* ---- the notebook's globals ----
    pc,         \* number of the next cell to execute (execution_count)
    train, test, store, store_states, state_names, googletrend, weather,
    trend_de,   \* the frames read and normalised by cells 4-7
    train_df, test_df,   \* the assembled train and test frames
    df, bwd, fwd,        \* union frame and rolling sums, cells 20-25
    valid_df,            \* validation frame, cell 28
    files,               \* the csv files written so far, cell 29
    start,      \* history: train_df and test_df as the modelled cells found them
    \* ---- the training notebook, cell 10 ----
    tpc,        \* "idle", "loop": in the while loop, "done": after the break
    continuous  \* proc.columns_ctx['final']['cols']['continuous']

mergeVars == <<mpc, obj, mright, mleft_on, mright_on, msuffix, mresult>>

inputVars == <<train, test, store, store_states, state_names, googletrend,
               weather, trend_de>>

eventVars == <<df, bwd, fwd>>

outVars == <<valid_df, files>>

labelVars == <<tpc, continuous>>

vars == <<mergeVars, pc, inputVars, train_df, test_df, eventVars, outVars,
          start, labelVars>>

\* the training notebook is not running
LabelLoopIdle == tpc = "idle" /\ continuous = <<>>

-----------------------------------------------------------------------------
(* Cells and dataframes *)

NA == <<>>

V(v) == <<v>>

IsNA(c) == c = NA

None == <<>>

Range(s) == {s[i] : i \in 1..Len(s)}

Min(S) == CHOOSE x \in S : \A y \in S : x <= y

Max(S) == CHOOSE x \in S : \A y \in S : x >= y

RECURSIVE Flatten(_)
Flatten(ss) == IF ss = <<>> THEN <<>> ELSE Head(ss) \o Flatten(Tail(ss))

\* the subsequence of s at the positions satisfying keep, in order
RECURSIVE SelectIdx(_, _, _)
SelectIdx(s, keep, i) ==
    IF i > Len(s) THEN <<>>
    ELSE (IF i \in keep THEN <<s[i]>> ELSE <<>>) \o SelectIdx(s, keep, i + 1)

EmptyFrame == [cols |-> <<>>, rows |-> <<>>]

NRows(t) == Len(t.rows)

\* position of the first column labelled name, 0 when there is none
ColIndex(cols, name) ==
    IF name \in Range(cols)
    THEN CHOOSE i \in 1..Len(cols) :
            cols[i] = name /\ \A j \in 1..(i - 1) : cols[j] # name
    ELSE 0

HasCol(t, name) == name \in Range(t.cols)

Cell(t, r, name) == t.rows[r][ColIndex(t.cols, name)]

Column(t, name) == [r \in 1..NRows(t) |-> Cell(t, r, name)]

KeyOf(t, r, keys) == [p \in 1..Len(keys) |-> Cell(t, r, keys[p])]

\* df.drop(columns=names): every column carrying one of the labels goes
DropCols(t, names) ==
    LET keep == {i \in 1..Len(t.cols) : t.cols[i] \notin names}
    IN  [cols |-> SelectIdx(t.cols, keep, 1),
         rows |-> [r \in 1..NRows(t) |-> SelectIdx(t.rows[r], keep, 1)]]

-----------------------------------------------------------------------------
(* pandas.DataFrame.merge(right, how='left', left_on, right_on,            *)
(* suffixes=('', rsuffix)) as called on line 133                           *)

\* right rows whose key equals the key of left row i, in right order
\* (pandas matches a missing key with a missing key)
Matches(left, right, left_on, right_on, i) ==
    SelectIdx([j \in 1..NRows(right) |-> j],
              {j \in 1..NRows(right) :
                  KeyOf(right, j, right_on) = KeyOf(left, i, left_on)}, 1)

\* an inner join: unmatched left rows vanish
JoinPairsInner(left, right, left_on, right_on) ==
    Flatten([i \in 1..NRows(left) |->
        LET m == Matches(left, right, left_on, right_on, i)
        IN  [q \in 1..Len(m) |-> <<i, m[q]>>]])

\* the (left row, right row) pairs of the result, right row 0 when unmatched
JoinPairs(left, right, left_on, right_on) ==
    Flatten([i \in 1..NRows(left) |->
        LET m == Matches(left, right, left_on, right_on, i)
        IN  IF m = <<>> THEN << <<i, 0>> >>
            ELSE [q \in 1..Len(m) |-> <<i, m[q]>>]])

\* unmatched rows filled with zeros instead of missing values
RightPartZero(right, rkeep, j) ==
    IF j = 0 THEN [c \in 1..Cardinality(rkeep) |-> V(0)]
    ELSE SelectIdx(right.rows[j], rkeep, 1)

\* the right-hand cells of a result row: missing when the left row is unmatched
RightPart(right, rkeep, j) ==
    IF j = 0 THEN [c \in 1..Cardinality(rkeep) |-> NA]
    ELSE SelectIdx(right.rows[j], rkeep, 1)

\* a key label shared by both sides is kept once: the right copy is dropped,
\* or the left copy when the left frame has no rows
SharedKeys(left_on, right_on) ==
    {left_on[p] : p \in {q \in 1..Len(left_on) : left_on[q] = right_on[q]}}

PandasMerge(left, right, left_on, right_on, rsuffix) ==
    LET shared == SharedKeys(left_on, right_on)
        lkeep  == {i \in 1..Len(left.cols) :
                      NRows(left) > 0 \/ left.cols[i] \notin shared}
        rkeep  == {j \in 1..Len(right.cols) :
                      NRows(left) = 0 \/ right.cols[j] \notin shared}
        lcols  == SelectIdx(left.cols, lkeep, 1)
        rcols  == SelectIdx(right.cols, rkeep, 1)
        overlap == Range(lcols) \cap Range(rcols)
        rnamed == [j \in 1..Len(rcols) |->
                      IF rcols[j] \in overlap THEN rcols[j] \o rsuffix
                      ELSE rcols[j]]
        pairs  == JoinPairs(left, right, left_on, right_on)
    IN  [cols |-> lcols \o rnamed,
         rows |-> [n \in 1..Len(pairs) |->
                     SelectIdx(left.rows[pairs[n][1]], lkeep, 1)
                        \o RightPart(right, rkeep, pairs[n][2])]]

-----------------------------------------------------------------------------
(* LeftMerger.merge, lines 132-137 *)

\* re.search('_y$', name)
MatchesYSuffix(name) ==
    Len(name) >= 2 /\ SubSeq(name, Len(name) - 1, Len(name)) = "_y"

\* `right_on or left_on`: None and the empty list are falsy
OrList(x, default) == IF x = None THEN default ELSE x

\* `suffix or '_y'`: None and the empty string are falsy
OrStr(x, default) == IF x = None \/ x = <<"">> THEN default ELSE x[1]

DroppedAfterMerge(t) == {c \in Range(t.cols) : MatchesYSuffix(c)}

LeftMerge(left, right, left_on, right_on, suffix) ==
    LET t == PandasMerge(left, right, left_on, OrList(right_on, left_on),
                         OrStr(suffix, "_y"))
    IN  IF suffix = None THEN DropCols(t, DroppedAfterMerge(t)) ELSE t

-----------------------------------------------------------------------------
(* The merge utility on its own: any left frame, any call *)

MaxRows == 2

KeyCells == {NA, V(1), V(2)}

LeftSchemas == {<<"k", "a">>, <<"k", "a", "b">>, <<"k", "a", "b_y">>}

RightSchemas == {<<"k", "a">>, <<"k", "b">>, <<"k", "a", "c">>,
                 <<"rk", "a">>, <<"k", "b_y">>}

Suffixes == {None, <<"">>, <<"_DE">>, <<"_y">>}

KeyLists == UNION {[1..n -> KeyCells] : n \in 0..MaxRows}

\* a frame whose first column holds the keys ks; every other cell holds a
\* value of its own: base + 10 * column + row
FrameOf(cols, ks, base) ==
    [cols |-> cols,
     rows |-> [r \in 1..Len(ks) |->
                 [c \in 1..Len(cols) |->
                     IF c = 1 THEN ks[r] ELSE V(base + 10 * c + r)]]]

\* the notebook is not running
NotebookIdle ==
    /\ pc = 0
    /\ train = EmptyFrame /\ test = EmptyFrame /\ store = EmptyFrame
    /\ store_states = EmptyFrame /\ state_names = EmptyFrame
    /\ googletrend = EmptyFrame /\ weather = EmptyFrame
    /\ trend_de = EmptyFrame
    /\ train_df = EmptyFrame /\ test_df = EmptyFrame
    /\ df = EmptyFrame /\ bwd = EmptyFrame /\ fwd = EmptyFrame
    /\ valid_df = EmptyFrame
    /\ files = {}
    /\ start = <<>>

MergeInit ==
    /\ NotebookIdle
    /\ LabelLoopIdle
    /\ mpc = "new"
    /\ \E cols \in LeftSchemas, ks \in KeyLists : obj = FrameOf(cols, ks, 100)
    /\ mright = EmptyFrame
    /\ mleft_on = <<>>
    /\ mright_on = None
    /\ msuffix = None
    /\ mresult = EmptyFrame

\* df.left.merge(right, left_on, right_on, suffix); a key label that is not
\* a column raises KeyError and nothing is returned
merge ==
    /\ mpc = "new"
    /\ \E cols \in RightSchemas, ks \in KeyLists, suffix \in Suffixes,
          right_on \in {None, <<"k">>, <<"rk">>} :
          LET right == FrameOf(cols, ks, 200)
              left_on == <<"k">>
          IN  /\ \A p \in 1..Len(left_on) :
                    /\ HasCol(obj, left_on[p])
                    /\ HasCol(right, OrList(right_on, left_on)[p])
              /\ mright' = right
              /\ mleft_on' = left_on
              /\ mright_on' = right_on
              /\ msuffix' = suffix
              /\ mresult' = LeftMerge(obj, right, left_on, right_on, suffix)
    /\ mpc' = "merged"
    /\ UNCHANGED <<obj, pc, inputVars, train_df, test_df, eventVars, outVars,
                   start, labelVars>>

MergeNext == merge

SpecMerge == MergeInit /\ [][MergeNext]_vars

-----------------------------------------------------------------------------
(* Properties of LeftMerger.merge (SpecMerge) *)

EffRightOn == OrList(mright_on, mleft_on)

MergePairs == JoinPairs(obj, mright, mleft_on, EffRightOn)

Unmatched(i) == Matches(obj, mright, mleft_on, EffRightOn, i) = <<>>

RightKeyUnique ==
    \A j1, j2 \in 1..NRows(mright) :
        j1 # j2 => KeyOf(mright, j1, EffRightOn) # KeyOf(mright, j2, EffRightOn)

\* labels of the left frame that the result still carries
LeftKept == Range(obj.cols) \cap Range(mresult.cols)

\* result row n holds the cells of left row i under every kept left label
SameLeftCells(n, i) ==
    \A c \in LeftKept : Cell(mresult, n, c) = Cell(obj, i, c)

RowsCorrespond ==
    /\ NRows(mresult) = NRows(obj)
    /\ \A i \in 1..NRows(obj) : SameLeftCells(i, i)

NoMissingKey(t, keys) ==
    \A r \in 1..NRows(t) : \A p \in 1..Len(keys) : ~IsNA(KeyOf(t, r, keys)[p])

\* C1 as stated: for every input the result has exactly the left frame's
\* rows, one result row per left row and in the same order (stated here for
\* frames whose keys are all present, where it already fails).
C1_AnyRight ==
    (/\ mpc = "merged"
     /\ NoMissingKey(obj, mleft_on)
     /\ NoMissingKey(mright, EffRightOn)) => RowsCorrespond

\* C1 amended: when the right frame has at most one row per join key, the
\* result has exactly the left frame's rows, one per left row, same order.
C1_UniqueRight == (mpc = "merged" /\ RightKeyUnique) => RowsCorrespond

C1_Witness ==
    /\ mpc = "merged"
    /\ RightKeyUnique
    /\ NRows(obj) >= 2
    /\ NRows(mright) >= 2
    /\ \E i \in 1..NRows(obj) : Unmatched(i)
    /\ \E i \in 1..NRows(obj) : ~Unmatched(i)

\* labels that are columns of both frames and are not join keys
SharedNonKey ==
    (Range(obj.cols) \cap Range(mright.cols))
        \ (Range(mleft_on) \cup Range(EffRightOn))

CountLabel(t, c) == Cardinality({i \in 1..Len(t.cols) : t.cols[i] = c})

\* C2: a shared non-key label c. Without suffix the result has c exactly
\* once, with the left values; with a (non-empty) suffix s it has c with the
\* left values and c+s with the right values, and the right labels that do
\* not collide appear unsuffixed (stated for results that have rows).
C2_CollisionPolicy ==
    (mpc = "merged" /\ NRows(mresult) > 0) =>
        \A c \in SharedNonKey :
            /\ msuffix = None =>
                  /\ CountLabel(mresult, c) = 1
                  /\ \A n \in 1..NRows(mresult) :
                        Cell(mresult, n, c) = Cell(obj, MergePairs[n][1], c)
            /\ msuffix \notin {None, <<"">>} =>
                  /\ HasCol(mresult, c)
                  /\ HasCol(mresult, c \o msuffix[1])
                  /\ \A n \in 1..NRows(mresult) :
                        /\ Cell(mresult, n, c) = Cell(obj, MergePairs[n][1], c)
                        /\ MergePairs[n][2] # 0 =>
                              Cell(mresult, n, c \o msuffix[1])
                                 = Cell(mright, MergePairs[n][2], c)
                  /\ \A d \in Range(mright.cols) \ Range(obj.cols) :
                        HasCol(mresult, d)

\* labels under which the result carries the non-key columns of the right
\* frame
AppendedLabels ==
    {IF r \in Range(obj.cols) THEN r \o OrStr(msuffix, "_y") ELSE r :
        r \in Range(mright.cols) \ SharedKeys(mleft_on, EffRightOn)}
      \cap Range(mresult.cols)

\* result rows that come from left row i (the column a identifies a row)
ResultRowsOf(i) ==
    {n \in 1..NRows(mresult) : Cell(mresult, n, "a") = Cell(obj, i, "a")}

-----------------------------------------------------------------------------
(* Column operations used by cells 14-28 *)

\* df[name] = cells: replaces the column, or appends it when it is new
WithColumn(t, name, cells) ==
    IF HasCol(t, name)
    THEN [cols |-> t.cols,
          rows |-> [r \in 1..NRows(t) |->
                      [t.rows[r] EXCEPT ![ColIndex(t.cols, name)] = cells[r]]]]
    ELSE [cols |-> Append(t.cols, name),
          rows |-> [r \in 1..NRows(t) |-> Append(t.rows[r], cells[r])]]

\* df.loc[mask, name] = cell, mask being the set of the rows selected
LocSet(t, mask, name, cell) ==
    WithColumn(t, name, [r \in 1..NRows(t) |->
                            IF r \in mask THEN cell ELSE Cell(t, r, name)])

RowsOf(t) == 1..NRows(t)

\* series.fillna(v)
FillNA(c, v) == IF IsNA(c) THEN V(v) ELSE c

\* comparisons of a cell with a number: False on a missing cell
CellLT(c, v) == ~IsNA(c) /\ c[1] < v

CellGT(c, v) == ~IsNA(c) /\ c[1] > v

\* series // n, missing stays missing
FloorDiv(c, n) == IF IsNA(c) THEN NA ELSE V(c[1] \div n)

-----------------------------------------------------------------------------
(* Dates.  A datetime64 cell at midnight holds its day number (days since  *)
(* 1970-01-01); epoch seconds are kept as <<days, seconds of the day>>.    *)

SecondsPerDay == 86400

\* day number of the civil date y-m-d (proleptic Gregorian calendar)
DaysFromCivil(y, m, d) ==
    LET yy  == IF m <= 2 THEN y - 1 ELSE y
        era == yy \div 400
        yoe == yy - era * 400
        mp  == IF m > 2 THEN m - 3 ELSE m + 9
        doy == (153 * mp + 2) \div 5 + d - 1
        doe == yoe * 365 + yoe \div 4 - yoe \div 100 + doy
    IN  era * 146097 + doe - 719468

\* pd.to_datetime(dict(year=..., month=..., day=15)), line 210
ToDatetimeYMD(y, m, d) == IF IsNA(y) \/ IsNA(m) THEN NA
                          ELSE V(DaysFromCivil(y[1], m[1], d))

\* pd.to_datetime(year, format='%Y').astype(np.int64) // 10**9, line 244:
\* epoch seconds of January 1st
YearStartSeconds(y) == <<DaysFromCivil(y, 1, 1), 0>>

\* dt += seconds, line 245
AddSeconds(ts, seconds) ==
    LET total == ts[2] + seconds
    IN  <<ts[1] + total \div SecondsPerDay, total % SecondsPerDay>>

\* (date - pd.to_datetime(dt * 10**9)).dt.days, lines 246-247: whole days,
\* rounded down
DaysSince(date, ts) ==
    IF IsNA(date) \/ IsNA(ts) THEN NA
    ELSE V(date[1] - ts[1][1] - (IF ts[1][2] > 0 THEN 1 ELSE 0))

\* date_a - date_b in days, line 212
DateDiff(a, b) == IF IsNA(a) \/ IsNA(b) THEN NA ELSE V(a[1] - b[1])

-----------------------------------------------------------------------------
(* Cells 14-19: sentinel fill, competition and promo2 durations *)

SentinelYear == 1900

SentinelMonth == 1

SentinelWeek == 1

\* df[name] = df[name].fillna(v).astype(np.int32), lines 197-200
FillColumn(t, name, v) ==
    WithColumn(t, name, [r \in RowsOf(t) |-> FillNA(Cell(t, r, name), v)])

\* cell 14, lines 196-200
FillSentinels(t) ==
    LET t1 == FillColumn(t, "CompetitionOpenSinceYear", SentinelYear)
        t2 == FillColumn(t1, "CompetitionOpenSinceMonth", SentinelMonth)
        t3 == FillColumn(t2, "Promo2SinceYear", SentinelYear)
    IN  FillColumn(t3, "Promo2SinceWeek", SentinelWeek)

\* cell 15, lines 209-212
CompetitionSince(t) ==
    LET t1 == WithColumn(t, "CompetitionOpenSince", [r \in RowsOf(t) |->
                ToDatetimeYMD(Cell(t, r, "CompetitionOpenSinceYear"),
                              Cell(t, r, "CompetitionOpenSinceMonth"), 15)])
    IN  WithColumn(t1, "CompetitionDaysOpen", [r \in RowsOf(t1) |->
                DateDiff(Cell(t1, r, "Date"), Cell(t1, r, "CompetitionOpenSince"))])

MinYear == 1990

\* the negative durations are left as they are
ClampDaysSentinelOnly(t, days, year) ==
    LocSet(t, {r \in RowsOf(t) : CellLT(Cell(t, r, year), MinYear)}, days, V(0))

\* the durations counted from a sentinel year are left as they are
ClampDaysNegativeOnly(t, days, year) ==
    LocSet(t, {r \in RowsOf(t) : CellLT(Cell(t, r, days), 0)}, days, V(0))

\* lines 222-223 and 257-258: df.loc[days < 0, days] = 0;
\* df.loc[year < 1990, days] = 0
ClampDays(t, days, year) ==
    LET t1 == LocSet(t, {r \in RowsOf(t) : CellLT(Cell(t, r, days), 0)}, days, V(0))
    IN  LocSet(t1, {r \in RowsOf(t1) : CellLT(Cell(t1, r, year), MinYear)},
               days, V(0))

\* cell 16, lines 221-223
ClampCompetitionDays(t) ==
    ClampDays(t, "CompetitionDaysOpen", "CompetitionOpenSinceYear")

DaysPerMonth == 30

MaxMonths == 24

\* cell 17, lines 232-234
CompetitionMonths(t) ==
    LET t1 == WithColumn(t, "CompetitionMonthsOpen", [r \in RowsOf(t) |->
                FloorDiv(Cell(t, r, "CompetitionDaysOpen"), DaysPerMonth)])
    IN  LocSet(t1, {r \in RowsOf(t1) :
                      CellGT(Cell(t1, r, "CompetitionMonthsOpen"), MaxMonths)},
               "CompetitionMonthsOpen", V(MaxMonths))

SecondsPerWeek == 7 * 24 * 3600

\* cell 18, lines 243-247
Promo2Since(t) ==
    LET t1 == WithColumn(t, "Promo2Since", [r \in RowsOf(t) |->
                V(AddSeconds(YearStartSeconds(Cell(t, r, "Promo2SinceYear")[1]),
                             SecondsPerWeek * Cell(t, r, "Promo2SinceWeek")[1]))])
    IN  WithColumn(t1, "Promo2Days", [r \in RowsOf(t1) |->
                DaysSince(Cell(t1, r, "Date"), Cell(t1, r, "Promo2Since"))])

DaysPerWeek == 7

MaxWeeks == 25

\* cell 19, lines 256-262
Promo2Weeks(t) ==
    LET t1 == ClampDays(t, "Promo2Days", "Promo2SinceYear")
        t2 == WithColumn(t1, "Promo2Weeks", [r \in RowsOf(t1) |->
                FloorDiv(Cell(t1, r, "Promo2Days"), DaysPerWeek)])
        t3 == LocSet(t2, {r \in RowsOf(t2) : CellLT(Cell(t2, r, "Promo2Weeks"), 0)},
                     "Promo2Weeks", V(0))
    IN  LocSet(t3, {r \in RowsOf(t3) : CellGT(Cell(t3, r, "Promo2Weeks"), MaxWeeks)},
               "Promo2Weeks", V(MaxWeeks))

\* what a cell working on train_df and test_df leaves alone
notFrames == <<mergeVars, inputVars, eventVars, outVars, start, labelVars>>

\* `for df in [train_df, test_df]`: the body of each cell runs on both frames
Cell14 ==
    /\ pc = 14
    /\ train_df' = FillSentinels(train_df)
    /\ test_df' = FillSentinels(test_df)
    /\ pc' = 15
    /\ UNCHANGED notFrames

Cell15 ==
    /\ pc = 15
    /\ train_df' = CompetitionSince(train_df)
    /\ test_df' = CompetitionSince(test_df)
    /\ pc' = 16
    /\ UNCHANGED notFrames

Cell16 ==
    /\ pc = 16
    /\ train_df' = ClampCompetitionDays(train_df)
    /\ test_df' = ClampCompetitionDays(test_df)
    /\ pc' = 17
    /\ UNCHANGED notFrames

Cell17 ==
    /\ pc = 17
    /\ train_df' = CompetitionMonths(train_df)
    /\ test_df' = CompetitionMonths(test_df)
    /\ pc' = 18
    /\ UNCHANGED notFrames

Cell18 ==
    /\ pc = 18
    /\ train_df' = Promo2Since(train_df)
    /\ test_df' = Promo2Since(test_df)
    /\ pc' = 19
    /\ UNCHANGED notFrames

Cell19 ==
    /\ pc = 19
    /\ train_df' = Promo2Weeks(train_df)
    /\ test_df' = Promo2Weeks(test_df)
    /\ pc' = 20
    /\ UNCHANGED notFrames

\* the frames cell 14 may find: one row each, after the joins of cells 9-13
DateCols == <<"Date", "CompetitionOpenSinceYear", "CompetitionOpenSinceMonth",
              "Promo2SinceYear", "Promo2SinceWeek">>

RowDates == {DaysFromCivil(2013, 1, 1), DaysFromCivil(2014, 6, 20),
             DaysFromCivil(2015, 9, 17)}

CompetitionYears == {NA, V(1900), V(1961), V(1990), V(2012), V(2015), V(2016)}

CompetitionMonthsIn == {NA, V(1), V(9), V(12)}

Promo2Years == {NA, V(1989), V(2009), V(2014), V(2015)}

Promo2WeeksIn == {NA, V(1), V(40), V(50)}

TrainDateRows ==
    {<<V(d), cy, cm, py, pw>> :
        d \in RowDates, cy \in CompetitionYears, cm \in CompetitionMonthsIn,
        py \in Promo2Years, pw \in Promo2WeeksIn}

TestDateRows ==
    {<<V(DaysFromCivil(2015, 8, 1)), cy, V(9), py, pw>> :
        cy \in {NA, V(2016)}, py \in {NA, V(2015)}, pw \in {NA, V(40)}}

MergeIdle ==
    /\ mpc = "idle"
    /\ obj = EmptyFrame /\ mright = EmptyFrame /\ mresult = EmptyFrame
    /\ mleft_on = <<>> /\ mright_on = None /\ msuffix = None

DatesInit ==
    /\ MergeIdle
    /\ LabelLoopIdle
    /\ pc = 14
    /\ train = EmptyFrame /\ test = EmptyFrame /\ store = EmptyFrame
    /\ store_states = EmptyFrame /\ state_names = EmptyFrame
    /\ googletrend = EmptyFrame /\ weather = EmptyFrame
    /\ trend_de = EmptyFrame
    /\ \E row \in TrainDateRows : train_df = [cols |-> DateCols, rows |-> <<row>>]
    /\ \E row \in TestDateRows : test_df = [cols |-> DateCols, rows |-> <<row>>]
    /\ df = EmptyFrame /\ bwd = EmptyFrame /\ fwd = EmptyFrame
    /\ valid_df = EmptyFrame
    /\ files = {}
    /\ start = [train_df |-> train_df, test_df |-> test_df]

DatesNext == Cell14 \/ Cell15 \/ Cell16 \/ Cell17 \/ Cell18 \/ Cell19

SpecDates == DatesInit /\ [][DatesNext]_vars

-----------------------------------------------------------------------------
(* Properties of the date-derived features (SpecDates) *)

\* the two frames after cell 19, each with the frame cell 14 found
DateFrames == {<<train_df, start.train_df>>, <<test_df, start.test_df>>}

InRange(c, lo, hi) == ~IsNA(c) /\ lo <= c[1] /\ c[1] <= hi

\* C5: after the date-feature derivation every row of train and test has
\* CompetitionDaysOpen >= 0, Promo2Days >= 0, 0 <= CompetitionMonthsOpen <= 24
\* and 0 <= Promo2Weeks <= 25.
C5_Clamping ==
    pc = 20 =>
        \A f \in DateFrames : \A r \in 1..NRows(f[1]) :
            /\ ~IsNA(Cell(f[1], r, "CompetitionDaysOpen"))
            /\ Cell(f[1], r, "CompetitionDaysOpen")[1] >= 0
            /\ ~IsNA(Cell(f[1], r, "Promo2Days"))
            /\ Cell(f[1], r, "Promo2Days")[1] >= 0
            /\ InRange(Cell(f[1], r, "CompetitionMonthsOpen"), 0, 24)
            /\ InRange(Cell(f[1], r, "Promo2Weeks"), 0, 25)

\* a row whose raw competition duration is negative, one whose months are
\* capped, one whose weeks are capped
C5_Witness ==
    /\ pc = 20
    /\ Cell(test_df, 1, "Date")[1] < Cell(test_df, 1, "CompetitionOpenSince")[1]
    /\ Cell(train_df, 1, "CompetitionDaysOpen")[1] > 24 * 30 + 30
    /\ Cell(train_df, 1, "Promo2Days")[1] > 25 * 7 + 7
    /\ Cell(train_df, 1, "CompetitionMonthsOpen") = V(24)
    /\ Cell(train_df, 1, "Promo2Weeks") = V(25)

Max2(a, b) == IF a >= b THEN a ELSE b

Min2(a, b) == IF a <= b THEN a ELSE b

\* what C6 says of the durations of row r of frame t
C6_DurationRule(t, r) ==
    LET date == Cell(t, r, "Date")[1]
        cy   == Cell(t, r, "CompetitionOpenSinceYear")[1]
        cm   == Cell(t, r, "CompetitionOpenSinceMonth")[1]
        py   == Cell(t, r, "Promo2SinceYear")[1]
        pw   == Cell(t, r, "Promo2SinceWeek")[1]
        cdays == Cell(t, r, "CompetitionDaysOpen")[1]
        pdays == Cell(t, r, "Promo2Days")[1]
    IN  /\ cy < 1990 => cdays = 0
        /\ py < 1990 => pdays = 0
        /\ cy >= 1990 => cdays = Max2(0, date - DaysFromCivil(cy, cm, 15))
        /\ py >= 1990 => pdays = Max2(0, date - (DaysFromCivil(py, 1, 1) + 7 * pw))
        /\ Cell(t, r, "CompetitionMonthsOpen") = V(Min2(24, cdays \div 30))
        /\ Cell(t, r, "Promo2Weeks") = V(Min2(25, pdays \div 7))

\* a missing year becomes 1900 and ends with zero durations
C6_SentinelYear(t, t0, r) ==
    /\ IsNA(Cell(t0, r, "CompetitionOpenSinceYear")) =>
          /\ Cell(t, r, "CompetitionOpenSinceYear") = V(1900)
          /\ Cell(t, r, "CompetitionDaysOpen") = V(0)
          /\ Cell(t, r, "CompetitionMonthsOpen") = V(0)
    /\ IsNA(Cell(t0, r, "Promo2SinceYear")) =>
          /\ Cell(t, r, "Promo2SinceYear") = V(1900)
          /\ Cell(t, r, "Promo2Days") = V(0)
          /\ Cell(t, r, "Promo2Weeks") = V(0)

\* C6 as stated: a row whose competition-open year is missing gets year 1900
\* and month 1, a row whose promo2 year is missing gets year 1900 and week 1,
\* both with zero durations; a year below 1990 gives duration 0, otherwise
\* the duration is max(0, date - since), months = min(24, days div 30) and
\* weeks = min(25, days div 7).
C6_MissingYearGetsMonth1 ==
    pc = 20 =>
        \A f \in DateFrames : \A r \in 1..NRows(f[1]) :
            /\ C6_SentinelYear(f[1], f[2], r)
            /\ IsNA(Cell(f[2], r, "CompetitionOpenSinceYear")) =>
                  Cell(f[1], r, "CompetitionOpenSinceMonth") = V(1)
            /\ IsNA(Cell(f[2], r, "Promo2SinceYear")) =>
                  Cell(f[1], r, "Promo2SinceWeek") = V(1)
            /\ C6_DurationRule(f[1], r)

\* C6 amended: the month (week) becomes 1 when the month (week) itself is
\* missing, and a month (week) that is present is kept, whether or not the
\* year is missing; the rest as stated.
C6_Durations ==
    pc = 20 =>
        \A f \in DateFrames : \A r \in 1..NRows(f[1]) :
            /\ C6_SentinelYear(f[1], f[2], r)
            /\ Cell(f[1], r, "CompetitionOpenSinceMonth")
                  = FillNA(Cell(f[2], r, "CompetitionOpenSinceMonth"), 1)
            /\ Cell(f[1], r, "Promo2SinceWeek")
                  = FillNA(Cell(f[2], r, "Promo2SinceWeek"), 1)
            /\ C6_DurationRule(f[1], r)

\* a row with year and month both missing, promo2 running for some weeks
\* below the cap; a test row with the year missing and the month present
C6_Witness ==
    /\ pc = 20
    /\ IsNA(Cell(start.train_df, 1, "CompetitionOpenSinceYear"))
    /\ IsNA(Cell(start.train_df, 1, "CompetitionOpenSinceMonth"))
    /\ Cell(train_df, 1, "CompetitionOpenSinceMonth") = V(1)
    /\ Cell(train_df, 1, "Promo2SinceYear")[1] >= 1990
    /\ InRange(Cell(train_df, 1, "Promo2Weeks"), 1, 24)
    /\ IsNA(Cell(start.test_df, 1, "CompetitionOpenSinceYear"))
    /\ Cell(test_df, 1, "CompetitionOpenSinceMonth") = V(9)
    /\ Cell(test_df, 1, "CompetitionDaysOpen") = V(0)

-----------------------------------------------------------------------------
(* Sorting, concatenation and index handling of frames, cells 20-24 *)

\* code-point order of the characters that occur in column labels
Alphabet == "0123456789ABCDEFGHIJKLMNOPQRSTUVWXYZ_abcdefghijklmnopqrstuvwxyz"

CharRank ==
    [ch \in {SubSeq(Alphabet, i, i) : i \in 1..Len(Alphabet)} |->
        CHOOSE i \in 1..Len(Alphabet) : SubSeq(Alphabet, i, i) = ch]

\* a < b for two labels, as Python compares str
RECURSIVE StrLess(_, _)
StrLess(a, b) ==
    IF Len(b) = 0 THEN FALSE
    ELSE IF Len(a) = 0 THEN TRUE
    ELSE LET x == CharRank[SubSeq(a, 1, 1)]
             y == CharRank[SubSeq(b, 1, 1)]
         IN  IF x # y THEN x < y
             ELSE StrLess(SubSeq(a, 2, Len(a)), SubSeq(b, 2, Len(b)))

\* the labels of S in ascending order
SortedLabels(S) ==
    [p \in 1..Cardinality(S) |->
        CHOOSE c \in S : Cardinality({d \in S : StrLess(d, c)}) = p - 1]

\* the row of t under the labels cols, missing where t has no such column
Reindexed(t, r, cols) ==
    [c \in 1..Len(cols) |->
        IF HasCol(t, cols[c]) THEN Cell(t, r, cols[c]) ELSE NA]

\* a.append(b, ignore_index=True), line 286: the rows of a, then those of b;
\* when the labels differ the result carries their union, sorted
AppendFrames(a, b) ==
    LET cols == IF a.cols = b.cols THEN a.cols
                ELSE SortedLabels(Range(a.cols) \cup Range(b.cols))
    IN  [cols |-> cols,
         rows |-> [r \in 1..NRows(a) |-> Reindexed(a, r, cols)]
                    \o [r \in 1..NRows(b) |-> Reindexed(b, r, cols)]]

\* a < b for two keys (tuples of present numeric cells), lexicographically
LexLess(a, b) ==
    \E p \in 1..Len(a) :
        /\ a[p][1] < b[p][1]
        /\ \A q \in 1..(p - 1) : a[q] = b[q]

\* stable ascending order of the positions of keys
SortPerm(keys) ==
    LET rank(i) == Cardinality({j \in 1..Len(keys) : LexLess(keys[j], keys[i])})
                 + Cardinality({j \in 1..(i - 1) : keys[j] = keys[i]}) + 1
    IN  [p \in 1..Len(keys) |-> CHOOSE i \in 1..Len(keys) : rank(i) = p]

\* descending order: the ascending sort of the reversed input, reversed
SortPermDesc(keys) ==
    LET rank(i) == Cardinality({j \in 1..Len(keys) : LexLess(keys[i], keys[j])})
                 + Cardinality({j \in 1..(i - 1) : keys[j] = keys[i]}) + 1
    IN  [p \in 1..Len(keys) |-> CHOOSE i \in 1..Len(keys) : rank(i) = p]

\* df.sort_values(by=by), line 296
SortValues(t, by) ==
    LET perm == SortPerm([r \in RowsOf(t) |-> KeyOf(t, r, by)])
    IN  [cols |-> t.cols, rows |-> [p \in RowsOf(t) |-> t.rows[perm[p]]]]

\* df.set_index(name), line 329: the column becomes the index
SetIndex(t, name) ==
    LET rest == DropCols(t, {name})
    IN  [cols |-> rest.cols, rows |-> rest.rows,
         index_names |-> <<name>>,
         index |-> [r \in RowsOf(t) |-> <<Cell(t, r, name)>>]]

\* df.reset_index(), lines 342 and 351: the index levels become the leading
\* columns
ResetIndex(t) ==
    [cols |-> t.index_names \o t.cols,
     rows |-> [r \in RowsOf(t) |-> t.index[r] \o t.rows[r]]]

\* df[labels]: the listed columns, the index kept
Project(t, labels) ==
    [cols |-> labels,
     rows |-> [r \in RowsOf(t) |-> [c \in 1..Len(labels) |-> Cell(t, r, labels[c])]],
     index_names |-> t.index_names,
     index |-> t.index]

\* df.sort_index(ascending=...), lines 330-331
SortIndex(t, ascending) ==
    LET perm == IF ascending THEN SortPerm(t.index) ELSE SortPermDesc(t.index)
    IN  [cols |-> t.cols,
         rows |-> [p \in RowsOf(t) |-> t.rows[perm[p]]],
         index_names |-> t.index_names,
         index |-> [p \in RowsOf(t) |-> t.index[perm[p]]]]

-----------------------------------------------------------------------------
(* Cell 21: days after / before the nearest event, lines 295-320 *)

EventFields == <<"SchoolHoliday", "StateHoliday", "Promo">>

\* series.diff(): missing on the first row
Diff(col) ==
    [i \in 1..Len(col) |-> IF i = 1 THEN NA ELSE V(col[i][1] - col[i - 1][1])]

\* first_indices = df.Store.diff() != 0, line 299
FirstIndices(stores) ==
    LET d == Diff(stores)
    IN  [i \in 1..Len(stores) |-> IsNA(d[i]) \/ d[i][1] # 0]

\* last_indices = df.Store.diff().iloc[1:].append(pd.Series([1])), lines
\* 300-301, read as booleans by `|`: a number is true when it is not zero
LastIndices(stores) ==
    LET d == Diff(stores)
        shifted == [i \in 1..Len(stores) |->
                       IF i < Len(stores) THEN d[i + 1] ELSE V(1)]
    IN  [i \in 1..Len(stores) |-> ~IsNA(shifted[i]) /\ shifted[i][1] # 0]

\* only the rows that close a store are kept as boundaries
IdxMaskLastOnly(stores) ==
    [i \in 1..Len(stores) |-> ~LastIndices(stores)[i]]

\* only the rows that open a store are kept as boundaries
IdxMaskFirstOnly(stores) ==
    [i \in 1..Len(stores) |-> ~FirstIndices(stores)[i]]

\* idx_mask = ~(first_indices | last_indices), line 302
IdxMask(stores) ==
    [i \in 1..Len(stores) |-> ~(FirstIndices(stores)[i] \/ LastIndices(stores)[i])]

\* series.ffill()
RECURSIVE FFill(_)
FFill(col) ==
    IF col = <<>> THEN <<>>
    ELSE LET n == Len(col)
             front == FFill(SubSeq(col, 1, n - 1))
         IN  Append(front, IF IsNA(col[n]) /\ n > 1 THEN front[n - 1] ELSE col[n])

\* series.bfill()
RECURSIVE BFill(_)
BFill(col) ==
    IF col = <<>> THEN <<>>
    ELSE LET back == BFill(Tail(col))
         IN  <<IF IsNA(col[1]) /\ back # <<>> THEN back[1] ELSE col[1]>> \o back

\* only the rows the mask selects are blanked, whatever the event
TmpColumnMaskOnly(t, field, mask) ==
    [r \in RowsOf(t) |-> IF mask[r] THEN NA ELSE Cell(t, r, "Date")]

\* lines 308-309: tmp = Date, blanked where the event is 0 and the row is
\* inside its store's range
TmpColumn(t, field, mask) ==
    [r \in RowsOf(t) |->
        IF Cell(t, r, field) = V(0) /\ mask[r] THEN NA ELSE Cell(t, r, "Date")]

\* one turn of the loop over event_fields, lines 308-317
EventDeltas(t, field, mask) ==
    LET t1 == WithColumn(t, "tmp", TmpColumn(t, field, mask))
        t2 == WithColumn(t1, "After" \o field, FFill(Column(t1, "tmp")))
        t3 == WithColumn(t2, "Before" \o field, BFill(Column(t2, "tmp")))
        t4 == WithColumn(t3, "After" \o field, [r \in RowsOf(t3) |->
                 DateDiff(Cell(t3, r, "Date"), Cell(t3, r, "After" \o field))])
    IN  WithColumn(t4, "Before" \o field, [r \in RowsOf(t4) |->
                 DateDiff(Cell(t4, r, "Before" \o field), Cell(t4, r, "Date"))])

RECURSIVE EventLoop(_, _, _)
EventLoop(t, fields, mask) ==
    IF fields = <<>> THEN t
    ELSE EventLoop(EventDeltas(t, Head(fields), mask), Tail(fields), mask)

\* cell 21 as a whole
EventProximity(t) ==
    LET sorted == SortValues(t, <<"Store", "Date">>)
        mask   == IdxMask(Column(sorted, "Store"))
    IN  DropCols(EventLoop(sorted, EventFields, mask), {"tmp"})

-----------------------------------------------------------------------------
(* Cells 22-23: rolling sums per store, lines 329-342 *)

Window == 7

MinPeriods == 1

RECURSIVE SumCells(_)
SumCells(cells) ==
    IF cells = <<>> THEN 0 ELSE Head(cells)[1] + SumCells(Tail(cells))

\* the window runs over eight rows
RollingSumWide(col, k) ==
    LET lo == IF k - Window > 1 THEN k - Window ELSE 1
    IN  IF k - lo + 1 >= MinPeriods THEN V(SumCells(SubSeq(col, lo, k))) ELSE NA

\* rolling(7, min_periods=1).sum() at row k of one group: the sum of the
\* row and of the up to 6 rows before it
RollingSum(col, k) ==
    LET lo == IF k - Window + 1 > 1 THEN k - Window + 1 ELSE 1
    IN  IF k - lo + 1 >= MinPeriods THEN V(SumCells(SubSeq(col, lo, k))) ELSE NA

\* the windows take the rows of every store
GroupRowsAll(t, g) == [r \in RowsOf(t) |-> r]

\* the rows of t whose Store is g, in the order of t
GroupRows(t, g) ==
    SelectIdx([r \in RowsOf(t) |-> r], {r \in RowsOf(t) : Cell(t, r, "Store") = g}, 1)

\* the present values of a column, ascending
SortedValues(col) ==
    LET S == {col[i][1] : i \in {j \in 1..Len(col) : ~IsNA(col[j])}}
    IN  [p \in 1..Cardinality(S) |->
            CHOOSE v \in S : Cardinality({w \in S : w < v}) = p - 1]

\* t.groupby("Store").rolling(7, min_periods=1).sum(): one row per row of
\* t, group after group, indexed by (Store, Date)
GroupbyRolling(t) ==
    LET groups == SortedValues(Column(t, "Store"))
        block(g) ==
            LET rs == GroupRows(t, V(g))
            IN  [k \in 1..Len(rs) |->
                    [idx |-> <<V(g)>> \o t.index[rs[k]],
                     row |-> [c \in 1..Len(t.cols) |->
                                RollingSum([q \in 1..Len(rs) |-> t.rows[rs[q]][c]], k)]]]
        all == Flatten([n \in 1..Len(groups) |-> block(groups[n])])
    IN  [cols |-> t.cols,
         rows |-> [r \in 1..Len(all) |-> all[r].row],
         index_names |-> <<"Store">> \o t.index_names,
         index |-> [r \in 1..Len(all) |-> all[r].idx]]

\* lines 330-331, for bwd (ascending) and fwd (descending)
RollingFrame(t, ascending) ==
    GroupbyRolling(SortIndex(Project(t, <<"Store">> \o EventFields), ascending))

\* cell 23, lines 340-342: d.drop('Store', 1); d.reset_index()
DropStoreAndReset(t) ==
    LET d == DropCols(t, {"Store"})
    IN  ResetIndex([cols |-> d.cols, rows |-> d.rows,
                    index_names |-> t.index_names, index |-> t.index])

-----------------------------------------------------------------------------
(* Cells 20-26 *)

Cell20 ==
    /\ pc = 20
    /\ df' = AppendFrames(train_df, test_df)
    /\ pc' = 21
    /\ UNCHANGED <<mergeVars, inputVars, train_df, test_df, bwd, fwd, outVars,
                   start, labelVars>>

\* an empty frame makes line 301 fail: the index has no row for the 1
Cell21 ==
    /\ pc = 21
    /\ NRows(df) > 0
    /\ df' = EventProximity(df)
    /\ pc' = 22
    /\ UNCHANGED <<mergeVars, inputVars, train_df, test_df, bwd, fwd, outVars,
                   start, labelVars>>

Cell22 ==
    /\ pc = 22
    /\ df' = SetIndex(df, "Date")
    /\ bwd' = RollingFrame(df', TRUE)
    /\ fwd' = RollingFrame(df', FALSE)
    /\ pc' = 23
    /\ UNCHANGED <<mergeVars, inputVars, train_df, test_df, outVars, start, labelVars>>

Cell23 ==
    /\ pc = 23
    /\ bwd' = DropStoreAndReset(bwd)
    /\ fwd' = DropStoreAndReset(fwd)
    /\ pc' = 24
    /\ UNCHANGED <<mergeVars, inputVars, train_df, test_df, df, outVars, start, labelVars>>

Cell24 ==
    /\ pc = 24
    /\ df' = ResetIndex(df)
    /\ pc' = 25
    /\ UNCHANGED <<mergeVars, inputVars, train_df, test_df, bwd, fwd, outVars,
                   start, labelVars>>

\* the joins match on the store alone
StoreDateFirstOnly == <<"Store">>

\* the key of the joins of cells 25-26, lines 361 and 370-371
StoreDate == <<"Store", "Date">>

\* lines 360-361: the loop joins bwd with suffix _bw, then fwd with _fw
Cell25 ==
    /\ pc = 25
    /\ df' = LeftMerge(LeftMerge(df, bwd, StoreDate, None, <<"_bw">>),
                       fwd, StoreDate, None, <<"_fw">>)
    /\ pc' = 26
    /\ UNCHANGED <<mergeVars, inputVars, train_df, test_df, bwd, fwd, outVars,
                   start, labelVars>>

\* the union is joined back onto the sales table only
Cell26TrainOnly ==
    /\ pc = 26
    /\ train_df' = LeftMerge(train_df, df, StoreDate, None, None)
    /\ test_df' = test_df
    /\ pc' = 27
    /\ UNCHANGED <<mergeVars, inputVars, eventVars, outVars, start, labelVars>>

Cell26 ==
    /\ pc = 26
    /\ train_df' = LeftMerge(train_df, df, StoreDate, None, None)
    /\ test_df' = LeftMerge(test_df, df, StoreDate, None, None)
    /\ pc' = 27
    /\ UNCHANGED <<mergeVars, inputVars, eventVars, outVars, start, labelVars>>

-----------------------------------------------------------------------------
(* Cells 27-29: zero-sales filter, split and output, lines 380-403 *)

ValidFracPercent == 25

\* num_valid = int(VALID_FRAC*len(train_df)), line 390
NumValid(n) == (ValidFracPercent * n) \div 100

\* every row is kept
FilterSalesKeepAll(t) == t

\* train_df[train_df.Sales != 0], line 380; a missing Sales differs from 0
FilterSales(t) ==
    [cols |-> t.cols,
     rows |-> SelectIdx(t.rows, {r \in RowsOf(t) : Cell(t, r, "Sales") # V(0)}, 1)]

\* the rows are left in the order of the table
SortByDateNot(t) == t

\* train_df.sort_values(by='Date'), line 389
SortByDate(t) == SortValues(t, <<"Date">>)

\* t[-k:], line 391: the slice starts k rows before the end, and at the
\* first row when k is 0 or exceeds the number of rows
LastRows(t, k) ==
    LET n == NRows(t)
        first == IF k = 0 \/ k > n THEN 1 ELSE n - k + 1
    IN  [cols |-> t.cols, rows |-> SubSeq(t.rows, first, n)]

\* the slice stops one row late
ButLastRowsOneMore(t, k) ==
    LET n == NRows(t)
        stop == IF k = 0 \/ k > n THEN 0 ELSE n - k + 1
    IN  [cols |-> t.cols, rows |-> SubSeq(t.rows, 1, stop)]

\* t[:-k], line 392: the slice stops k rows before the end, and before the
\* first row when k is 0 or exceeds the number of rows
ButLastRows(t, k) ==
    LET n == NRows(t)
        stop == IF k = 0 \/ k > n THEN 0 ELSE n - k
    IN  [cols |-> t.cols, rows |-> SubSeq(t.rows, 1, stop)]

Cell27 ==
    /\ pc = 27
    /\ train_df' = FilterSales(train_df)
    /\ pc' = 28
    /\ UNCHANGED <<mergeVars, inputVars, test_df, eventVars, outVars, start, labelVars>>

Cell28 ==
    /\ pc = 28
    /\ valid_df' = LastRows(SortByDate(train_df), NumValid(NRows(train_df)))
    /\ train_df' = ButLastRows(SortByDate(train_df), NumValid(NRows(train_df)))
    /\ pc' = 29
    /\ UNCHANGED <<mergeVars, inputVars, test_df, eventVars, files, start, labelVars>>

\* df.to_csv(os.path.join(OUTPUT_DATA_DIR, name), index=False): the file
\* holds the header and the rows of the table, whatever it held before
WriteCsv(fs, name, t) ==
    {f \in fs : ~(f.dir = "OUTPUT_DATA_DIR" /\ f.name = name)}
        \cup {[dir |-> "OUTPUT_DATA_DIR", name |-> name,
               table |-> [cols |-> t.cols, rows |-> t.rows]]}

Cell29 ==
    /\ pc = 29
    /\ files' = WriteCsv(WriteCsv(WriteCsv(files, "train.csv", train_df),
                                  "valid.csv", valid_df),
                         "test.csv", test_df)
    /\ pc' = 30
    /\ UNCHANGED <<mergeVars, inputVars, train_df, test_df, eventVars,
                   valid_df, start, labelVars>>

-----------------------------------------------------------------------------
(* The frames cell 20 may find: stores 1 and 2, dates as day numbers *)

TrainCols == <<"Store", "Date", "Sales", "Customers", "Promo", "StateHoliday",
               "SchoolHoliday">>

TestCols == <<"Id", "Store", "Date", "Promo", "StateHoliday", "SchoolHoliday">>

\* a row of the sales table; flags = <<SchoolHoliday, StateHoliday, Promo>>
TrainRow(s, d, flags) ==
    <<V(s), V(d), V(5), V(50), V(flags[3]), V(flags[2]), V(flags[1])>>

\* a row of the test table
TestRow(s, d, flags) ==
    <<V(1000 + 100 * s + d), V(s), V(d), V(flags[3]), V(flags[2]), V(flags[1])>>

Reverse(s) == [i \in 1..Len(s) |-> s[Len(s) + 1 - i]]

\* the (store, date, flags) entries of store s: pick[d] is <<>> when the
\* store has no row on day d, else the flags of that day
StoreEntries(s, pick) ==
    LET days == SortedValues([i \in 1..Cardinality(DOMAIN pick) |->
                    V(CHOOSE d \in DOMAIN pick :
                        Cardinality({e \in DOMAIN pick : e < d}) = i - 1)])
        present == SelectIdx(days, {i \in 1..Len(days) : pick[days[i]] # <<>>}, 1)
    IN  [i \in 1..Len(present) |-> <<s, present[i], pick[present[i]]>>]

\* the sales file lists the latest dates first; the rows dated cut or later
\* belong to the test table, which may also repeat a (store, date) of the
\* sales table
FramesOf(entries, cut, extra) ==
    LET tr == SelectIdx(entries, {i \in 1..Len(entries) : entries[i][2] < cut}, 1)
        te == SelectIdx(entries, {i \in 1..Len(entries) : entries[i][2] >= cut}, 1)
                 \o extra
    IN  [train_df |-> [cols |-> TrainCols,
                       rows |-> Reverse([i \in 1..Len(tr) |->
                                   TrainRow(tr[i][1], tr[i][2], tr[i][3])])],
         test_df  |-> [cols |-> TestCols,
                       rows |-> [i \in 1..Len(te) |->
                                   TestRow(te[i][1], te[i][2], te[i][3])]]]

FlagChoices == {<<0, 0, 0>>, <<1, 0, 1>>, <<0, 1, 1>>}

\* short stores with gaps in their dates
ShortFrames ==
    {FramesOf(StoreEntries(1, p1) \o StoreEntries(2, p2), cut, extra) :
        p1 \in [{1, 2, 3, 10} -> FlagChoices \cup {<<>>}],
        p2 \in [{2} -> FlagChoices \cup {<<>>}],
        cut \in {3, 11},
        extra \in {<<>>, << <<1, 1, <<1, 0, 1>>>> >>}}

\* one store with eight or nine consecutive days
LongFrames ==
    {FramesOf(StoreEntries(1, p1), 8, <<>>) :
        p1 \in UNION {[1..n -> {<<1, 0, 0>>, <<0, 1, 1>>}] : n \in {8, 9}}}

EventsInit ==
    /\ MergeIdle
    /\ LabelLoopIdle
    /\ pc = 20
    /\ train = EmptyFrame /\ test = EmptyFrame /\ store = EmptyFrame
    /\ store_states = EmptyFrame /\ state_names = EmptyFrame
    /\ googletrend = EmptyFrame /\ weather = EmptyFrame
    /\ trend_de = EmptyFrame
    /\ \E f \in ShortFrames \cup LongFrames :
          /\ NRows(f.train_df) > 0
          /\ train_df = f.train_df
          /\ test_df = f.test_df
    /\ df = EmptyFrame /\ bwd = EmptyFrame /\ fwd = EmptyFrame
    /\ valid_df = EmptyFrame
    /\ files = {}
    /\ start = [train_df |-> train_df, test_df |-> test_df]

EventsNext == Cell20 \/ Cell21 \/ Cell22 \/ Cell23 \/ Cell24 \/ Cell25 \/ Cell26

SpecEvents == EventsInit /\ [][EventsNext]_vars

-----------------------------------------------------------------------------
(* Properties of the event distances of cell 21, read on df after cell 21 *)

SameStore(t, a, b) == Cell(t, a, "Store") = Cell(t, b, "Store")

FirstOfStore(t, r) == r = 1 \/ ~SameStore(t, r, r - 1)

LastOfStore(t, r) == r = NRows(t) \/ ~SameStore(t, r, r + 1)

EventOn(t, r, field) == Cell(t, r, field) # V(0)

DateAt(t, r) == Cell(t, r, "Date")[1]

\* the table is in store-then-date order
StoreDateSorted(t) ==
    \A r \in 1..(NRows(t) - 1) :
        \/ Cell(t, r, "Store")[1] < Cell(t, r + 1, "Store")[1]
        \/ SameStore(t, r, r + 1) /\ DateAt(t, r) <= DateAt(t, r + 1)

\* no two rows carry the same (Store, Date)
UniqueStoreDate(t) ==
    \A a, b \in RowsOf(t) :
        KeyOf(t, a, <<"Store", "Date">>) = KeyOf(t, b, <<"Store", "Date">>)
            => a = b

\* the rows of r's store at or before r (resp. at or after r) on which the
\* event is true
EventsUpTo(t, r, field) ==
    {q \in 1..r : SameStore(t, q, r) /\ EventOn(t, q, field)}

EventsFrom(t, r, field) ==
    {q \in r..NRows(t) : SameStore(t, q, r) /\ EventOn(t, q, field)}

\* the dates of r's store, not after (resp. not before) the date of r, on
\* which the event is true
EventDatesUpTo(t, r, field) ==
    {DateAt(t, q) : q \in {p \in RowsOf(t) :
        SameStore(t, p, r) /\ EventOn(t, p, field) /\ DateAt(t, p) <= DateAt(t, r)}}

EventDatesFrom(t, r, field) ==
    {DateAt(t, q) : q \in {p \in RowsOf(t) :
        SameStore(t, p, r) /\ EventOn(t, p, field) /\ DateAt(t, p) >= DateAt(t, r)}}

\* C7 as stated: with one row per (store, date), AfterE is the distance to
\* the latest date not after the row's on which its store has E true, and
\* BeforeE the distance to the earliest such date not before it, for every
\* row of the union and every event column.
C7_DistanceToEvent ==
    (pc = 22 /\ UniqueStoreDate(df)) =>
        \A i \in 1..Len(EventFields) : \A r \in RowsOf(df) :
            LET field == EventFields[i]
            IN  /\ EventDatesUpTo(df, r, field) # {} =>
                     Cell(df, r, "After" \o field)
                        = V(DateAt(df, r) - Max(EventDatesUpTo(df, r, field)))
                /\ EventDatesFrom(df, r, field) # {} =>
                     Cell(df, r, "Before" \o field)
                        = V(Min(EventDatesFrom(df, r, field)) - DateAt(df, r))

\* C7 (amended): in the store-then-date order of the union, a row that is
\* not the last row of its store has AfterE = its date minus the date of the
\* latest row of its store at or before it with E true, whenever there is
\* one; a row that is not the first row of its store has BeforeE = the date
\* of the earliest row of its store at or after it with E true minus its
\* date, whenever there is one; the last row of a store has AfterE = 0 and
\* the first row BeforeE = 0.
C7_DistanceInsideStore ==
    pc = 22 =>
        /\ StoreDateSorted(df)
        /\ \A i \in 1..Len(EventFields) : \A r \in RowsOf(df) :
            LET field == EventFields[i]
            IN  /\ (~LastOfStore(df, r) /\ EventsUpTo(df, r, field) # {}) =>
                     Cell(df, r, "After" \o field)
                        = V(DateAt(df, r)
                              - DateAt(df, Max(EventsUpTo(df, r, field))))
                /\ (~FirstOfStore(df, r) /\ EventsFrom(df, r, field) # {}) =>
                     Cell(df, r, "Before" \o field)
                        = V(DateAt(df, Min(EventsFrom(df, r, field)))
                              - DateAt(df, r))
                /\ LastOfStore(df, r) => Cell(df, r, "After" \o field) = V(0)
                /\ FirstOfStore(df, r) => Cell(df, r, "Before" \o field) = V(0)

\* store 1 on days 1, 2, 3, 10 with a school holiday on day 2 only: day 3 is
\* one day after it, while day 10, the last row, shows 0 days after it and
\* day 1, the first row, 0 days before it
C7_Witness ==
    /\ pc = 22
    /\ UniqueStoreDate(df)
    /\ \E r \in RowsOf(df) :
        /\ r + 3 <= NRows(df)
        /\ FirstOfStore(df, r) /\ LastOfStore(df, r + 3)
        /\ Cell(df, r, "Store") = V(1)
        /\ [k \in 0..3 |-> DateAt(df, r + k)] = [k \in 0..3 |-> IF k = 3 THEN 10 ELSE k + 1]
        /\ [k \in 0..3 |-> Cell(df, r + k, "SchoolHoliday")]
              = [k \in 0..3 |-> V(IF k = 1 THEN 1 ELSE 0)]
        /\ Cell(df, r + 2, "AfterSchoolHoliday") = V(1)
        /\ Cell(df, r + 3, "AfterSchoolHoliday") = V(0)
        /\ Cell(df, r, "BeforeSchoolHoliday") = V(0)


\* a row is a carry point when the event is true on it or it opens or closes
\* its store in the sorted table
CarryPoint(t, r, field) ==
    EventOn(t, r, field) \/ FirstOfStore(t, r) \/ LastOfStore(t, r)

CarryPointsBefore(t, r, field) == {q \in 1..(r - 1) : CarryPoint(t, q, field)}

CarryPointsAfter(t, r, field) ==
    {q \in (r + 1)..NRows(t) : CarryPoint(t, q, field)}

\* the rows of store s form three consecutive days with the event on the
\* second only
ThreeDaysEventOnSecond(t, r, field) ==
    /\ r + 2 <= NRows(t)
    /\ FirstOfStore(t, r) /\ SameStore(t, r, r + 1) /\ LastOfStore(t, r + 2)
    /\ DateAt(t, r + 1) = DateAt(t, r) + 1
    /\ DateAt(t, r + 2) = DateAt(t, r) + 2
    /\ ~EventOn(t, r, field) /\ EventOn(t, r + 1, field)
    /\ ~EventOn(t, r + 2, field)

\* C8: after cell 21 the union is in store-then-date order; every carry
\* point of an event has AfterE = 0 and BeforeE = 0; every other row has
\* AfterE = its date minus the date of the nearest earlier carry point and
\* BeforeE = the date of the nearest later carry point minus its date; a
\* store with three consecutive days and the event on the second only has
\* AfterE = 0 and BeforeE = 0 on all three.
C8_CarryPoints ==
    pc = 22 =>
        /\ StoreDateSorted(df)
        /\ \A i \in 1..Len(EventFields) : \A r \in RowsOf(df) :
            LET field == EventFields[i]
                after == Cell(df, r, "After" \o field)
                before == Cell(df, r, "Before" \o field)
            IN  /\ IF CarryPoint(df, r, field)
                   THEN after = V(0) /\ before = V(0)
                   ELSE /\ after = V(DateAt(df, r)
                              - DateAt(df, Max(CarryPointsBefore(df, r, field))))
                        /\ before = V(DateAt(df,
                                Min(CarryPointsAfter(df, r, field))) - DateAt(df, r))
                /\ ThreeDaysEventOnSecond(df, r, field) =>
                     \A k \in 0..2 :
                        /\ Cell(df, r + k, "After" \o field) = V(0)
                        /\ Cell(df, r + k, "Before" \o field) = V(0)

\* store 1 on days 1, 2, 3 with a school holiday on day 2 only and no state
\* holiday: the school-holiday distances are 0 on the three rows, and day 2,
\* no carry point of the state holiday, is one day from either end
C8_Witness ==
    /\ pc = 22
    /\ \E r \in RowsOf(df) :
        /\ ThreeDaysEventOnSecond(df, r, "SchoolHoliday")
        /\ \A k \in 0..2 :
            /\ Cell(df, r + k, "AfterSchoolHoliday") = V(0)
            /\ Cell(df, r + k, "BeforeSchoolHoliday") = V(0)
        /\ ~CarryPoint(df, r + 1, "StateHoliday")
        /\ Cell(df, r + 1, "AfterStateHoliday") = V(1)
        /\ Cell(df, r + 1, "BeforeStateHoliday") = V(1)


-----------------------------------------------------------------------------
(* Properties of the rolling sums of cells 22-23, read before cell 25 on   *)
(* bwd and fwd against the flags of the sorted union df                    *)

\* the sum of a column of t over the rows in S
SumOver(t, S, field) == SumCells(SelectIdx(Column(t, field), S, 1))

\* the rows of the rolling table d keyed by the (Store, Date) of row r of t
KeyedRows(d, t, r) ==
    {b \in RowsOf(d) :
        KeyOf(d, b, <<"Store", "Date">>) = KeyOf(t, r, <<"Store", "Date">>)}

\* the rolling table d gives row r of t exactly one row, whose sum of the
\* event is v
RollingIs(d, t, r, field, v) ==
    /\ Cardinality(KeyedRows(d, t, r)) = 1
    /\ \A b \in KeyedRows(d, t, r) : Cell(d, b, field) = V(v)

\* the rows of r's store dated within the days lo..hi
StoreRowsDated(t, r, lo, hi) ==
    {q \in RowsOf(t) : SameStore(t, q, r) /\ DateAt(t, q) \in lo..hi}

\* the rows of r's store among the positions lo..hi of the sorted table
StoreRowsAt(t, r, lo, hi) == {q \in lo..hi : q \in RowsOf(t) /\ SameStore(t, q, r)}

\* C9 as stated: with one row per (store, date), E_bw is the sum of E over
\* the store's rows dated within the 7 days ending on the row's date and
\* E_fw the sum over those dated within the 7 days starting on it, whatever
\* the dates of the store.
C9_CalendarWindow ==
    (pc = 25 /\ UniqueStoreDate(df)) =>
        \A i \in 1..Len(EventFields) : \A r \in RowsOf(df) :
            LET field == EventFields[i]
                d == DateAt(df, r)
            IN  /\ RollingIs(bwd, df, r, field,
                     SumOver(df, StoreRowsDated(df, r, d - (Window - 1), d), field))
                /\ RollingIs(fwd, df, r, field,
                     SumOver(df, StoreRowsDated(df, r, d, d + (Window - 1)), field))

\* C9 (amended): when no (store, date) pair occurs twice in the union, E_bw
\* is the sum of E over the row and the up to 6 rows of its store that
\* precede it in date order, and E_fw the sum over the row and the up to 6
\* rows of its store that follow it, however far apart their dates are.
C9_RowWindow ==
    (pc = 25 /\ UniqueStoreDate(df)) =>
        /\ StoreDateSorted(df)
        /\ \A i \in 1..Len(EventFields) : \A r \in RowsOf(df) :
            LET field == EventFields[i]
            IN  /\ RollingIs(bwd, df, r, field,
                     SumOver(df, StoreRowsAt(df, r, r - (Window - 1), r), field))
                /\ RollingIs(fwd, df, r, field,
                     SumOver(df, StoreRowsAt(df, r, r, r + (Window - 1)), field))

\* store 1 on days 1, 2, 3, 10 with a promo on days 1 and 2 only: the
\* trailing sum of day 10 counts both although they lie more than 6 days
\* back, and the leading sum of day 1 counts no more than its own rows
C9_Witness ==
    /\ pc = 25
    /\ UniqueStoreDate(df)
    /\ \E r \in RowsOf(df) :
        /\ r + 3 <= NRows(df)
        /\ FirstOfStore(df, r) /\ LastOfStore(df, r + 3)
        /\ SameStore(df, r, r + 3)
        /\ [k \in 0..3 |-> DateAt(df, r + k)]
              = [k \in 0..3 |-> IF k = 3 THEN 10 ELSE k + 1]
        /\ [k \in 0..3 |-> Cell(df, r + k, "Promo")]
              = [k \in 0..3 |-> V(IF k < 2 THEN 1 ELSE 0)]
        /\ RollingIs(bwd, df, r + 3, "Promo", 2)
        /\ RollingIs(fwd, df, r, "Promo", 2)
        /\ RollingIs(fwd, df, r + 3, "Promo", 0)

\* a store of more than seven rows: the trailing sum of its eighth row
\* leaves the first row out
C9_WitnessFullWindow ==
    /\ pc = 25
    /\ \E r \in RowsOf(df) :
        /\ r > Window
        /\ SameStore(df, r, r - Window)
        /\ EventOn(df, r - Window, "SchoolHoliday")
        /\ RollingIs(bwd, df, r, "SchoolHoliday",
              SumOver(df, (r - Window + 1)..r, "SchoolHoliday"))


\* the (Store, Date) of row r occurs on no other row of t
KeyOccursOnce(t, r) ==
    \A q \in RowsOf(t) :
        KeyOf(t, q, <<"Store", "Date">>) = KeyOf(t, r, <<"Store", "Date">>)
            => q = r

\* the rows of r's store before (resp. after) r in the sorted table
EarlierRows(t, r) == {q \in 1..(r - 1) : SameStore(t, q, r)}

LaterRows(t, r) == {q \in (r + 1)..NRows(t) : SameStore(t, q, r)}

\* no event cell of the rolling table d is missing
NoMissingSum(d) ==
    \A i \in 1..Len(EventFields) : \A b \in RowsOf(d) :
        ~IsNA(Cell(d, b, EventFields[i]))

\* C10: no rolling sum is missing and each rolling table has one row per row
\* of the union; a row with fewer than 6 earlier rows of its store has E_bw =
\* its own flag plus the flags of those earlier rows, and a row with fewer
\* than 6 later rows has E_fw = its own flag plus the flags of those later
\* rows, rows of other stores never counted; the first row of a store has
\* E_bw = its own flag and the last row E_fw = its own flag. (A row's sums
\* are looked up by its (store, date), so the rows compared are those whose
\* (store, date) occurs once.)
C10_PerStoreNeverMissing ==
    pc = 25 =>
        /\ NoMissingSum(bwd) /\ NoMissingSum(fwd)
        /\ NRows(bwd) = NRows(df) /\ NRows(fwd) = NRows(df)
        /\ \A i \in 1..Len(EventFields) : \A r \in RowsOf(df) :
            LET field == EventFields[i]
                own == Cell(df, r, field)[1]
            IN  KeyOccursOnce(df, r) =>
                /\ Cardinality(EarlierRows(df, r)) < Window - 1 =>
                     RollingIs(bwd, df, r, field,
                        own + SumOver(df, EarlierRows(df, r), field))
                /\ Cardinality(LaterRows(df, r)) < Window - 1 =>
                     RollingIs(fwd, df, r, field,
                        own + SumOver(df, LaterRows(df, r), field))
                /\ FirstOfStore(df, r) => RollingIs(bwd, df, r, field, own)
                /\ LastOfStore(df, r) => RollingIs(fwd, df, r, field, own)

\* stores 1 and 2: store 1 has a promo on each of its three rows, the only
\* row of store 2 has none; the sums of store 2 are 0 in both directions and
\* the third row of store 1 sums its store's three promos
C10_Witness ==
    /\ pc = 25
    /\ \E r \in RowsOf(df) :
        /\ r > 3
        /\ FirstOfStore(df, r) /\ LastOfStore(df, r)
        /\ FirstOfStore(df, r - 3)
        /\ \A q \in (r - 3)..(r - 1) : KeyOccursOnce(df, q) /\ EventOn(df, q, "Promo")
        /\ ~EventOn(df, r, "Promo")
        /\ RollingIs(bwd, df, r, "Promo", 0)
        /\ RollingIs(fwd, df, r, "Promo", 0)
        /\ RollingIs(bwd, df, r - 1, "Promo", 3)
        /\ RollingIs(fwd, df, r - 1, "Promo", 1)


-----------------------------------------------------------------------------
(* Cells 6-7: state of a trend file and calendar parts of a date *)

\* file.str.split('_', expand=True)[2], line 100: the text between the second
\* and the third underscore, missing when there are fewer than three parts
SplitThird(file) ==
    LET us == {i \in 1..Len(file) : SubSeq(file, i, i) = "_"}
    IN  IF Cardinality(us) < 2 THEN NA
        ELSE LET second == Min(us \ {Min(us)})
                 later  == {i \in us : i > second}
                 stop   == IF later = {} THEN Len(file) + 1 ELSE Min(later)
             IN  V(SubSeq(file, second + 1, stop - 1))

\* lines 100-101: the state of a trend file, 'NI' standing for 'HB,NI'
TrendState(file) ==
    IF SplitThird(file) = V("NI") THEN V("HB,NI") ELSE SplitThird(file)

\* day of the week of the day number n, Monday = 1
Weekday(n) == ((n + 3) % 7) + 1

\* the number of ISO weeks of year y
WeeksInYear(y) ==
    LET jan1 == Weekday(DaysFromCivil(y, 1, 1))
        leap == (y % 4 = 0 /\ y % 100 # 0) \/ y % 400 = 0
    IN  IF jan1 = 4 \/ (leap /\ jan1 = 3) THEN 53 ELSE 52

\* Date.dt.week, line 116: the ISO week number
IsoWeek(y, m, d) ==
    LET n   == DaysFromCivil(y, m, d)
        doy == n - DaysFromCivil(y, 1, 1) + 1
        w   == (doy - Weekday(n) + 10) \div 7
    IN  IF w < 1 THEN WeeksInYear(y - 1)
        ELSE IF w > WeeksInYear(y) THEN 1 ELSE w

\* lines 113-117: the cells Date, Year, Month, Week, Day of the date ymd
DateParts(ymd) ==
    <<V(DaysFromCivil(ymd[1], ymd[2], ymd[3])), V(ymd[1]), V(ymd[2]),
      V(IsoWeek(ymd[1], ymd[2], ymd[3])), V(ymd[3])>>

-----------------------------------------------------------------------------
(* Cells 9-13: the joins onto train and test *)


Cell9WeatherOnly ==
    /\ pc = 9
    /\ weather' = LeftMerge(weather, state_names, <<"file">>, <<"StateName">>, None)
    /\ store' = store
    /\ pc' = 10
    /\ UNCHANGED <<mergeVars, train, test, store_states, state_names,
                   googletrend, trend_de, train_df, test_df, eventVars,
                   outVars, start, labelVars>>

Cell9 ==
    /\ pc = 9
    /\ weather' = LeftMerge(weather, state_names, <<"file">>, <<"StateName">>, None)
    /\ store' = LeftMerge(store, store_states, <<"Store">>, <<"Store">>, None)
    /\ pc' = 10
    /\ UNCHANGED <<mergeVars, train, test, store_states, state_names,
                   googletrend, trend_de, train_df, test_df, eventVars,
                   outVars, start, labelVars>>

Cell10 ==
    /\ pc = 10
    /\ train_df' = LeftMerge(train, store, <<"Store">>, None, None)
    /\ test_df' = LeftMerge(test, store, <<"Store">>, None, None)
    /\ pc' = 11
    /\ UNCHANGED notFrames

Cell11 ==
    /\ pc = 11
    /\ train_df' = LeftMerge(train_df, googletrend, <<"State", "Year", "Week">>,
                             None, None)
    /\ test_df' = LeftMerge(test_df, googletrend, <<"State", "Year", "Week">>,
                            None, None)
    /\ pc' = 12
    /\ UNCHANGED notFrames

Cell12NoSuffix ==
    /\ pc = 12
    /\ train_df' = LeftMerge(train_df, trend_de, <<"Year", "Week">>, None, None)
    /\ test_df' = LeftMerge(test_df, trend_de, <<"Year", "Week">>, None, None)
    /\ pc' = 13
    /\ UNCHANGED notFrames

Cell12 ==
    /\ pc = 12
    /\ train_df' = LeftMerge(train_df, trend_de, <<"Year", "Week">>, None, <<"_DE">>)
    /\ test_df' = LeftMerge(test_df, trend_de, <<"Year", "Week">>, None, <<"_DE">>)
    /\ pc' = 13
    /\ UNCHANGED notFrames

Cell13 ==
    /\ pc = 13
    /\ train_df' = LeftMerge(train_df, weather, <<"State", "Date">>, None, None)
    /\ test_df' = LeftMerge(test_df, weather, <<"State", "Date">>, None, None)
    /\ pc' = 14
    /\ UNCHANGED notFrames


-----------------------------------------------------------------------------
(* The tables cell 9 may find, as cells 4-7 leave them *)

DateLabels == <<"Year", "Month", "Week", "Day">>

\* a row of train after cell 7; flags = <<SchoolHoliday, StateHoliday, Promo>>
TrainRowAt(s, ymd, sales, flags) ==
    LET dp == DateParts(ymd)
    IN  <<V(s), dp[1], V(sales), V(10 * sales), V(flags[3]), V(flags[2]),
          V(flags[1]), dp[2], dp[3], dp[4], dp[5]>>

\* a row of test after cell 7
TestRowAt(id, s, ymd, flags) ==
    LET dp == DateParts(ymd)
    IN  <<V(id), V(s), dp[1], V(flags[3]), V(flags[2]), V(flags[1]),
          dp[2], dp[3], dp[4], dp[5]>>

\* a row of googletrend after cells 6-7: the week starts on ymd
TrendRow(file, week, trend, ymd) ==
    LET dp == DateParts(ymd)
    IN  <<V(file), V(week), V(trend), dp[1], TrendState(file),
          dp[2], dp[3], dp[4], dp[5]>>

\* a row of weather after cell 7
WeatherRow(file, ymd, temperature) ==
    LET dp == DateParts(ymd)
    IN  <<V(file), dp[1], V(temperature), dp[2], dp[3], dp[4], dp[5]>>

\* trend_de = googletrend.loc[googletrend.file == 'Rossmann_DE'].copy(),
\* line 103
TrendDE(t) ==
    [cols |-> t.cols,
     rows |-> SelectIdx(t.rows,
                {r \in RowsOf(t) : Cell(t, r, "file") = V("Rossmann_DE")}, 1)]

\* the sales files, the latest date first
TrainChoices ==
    { << TrainRowAt(1, <<2015, 7, 31>>, 7, <<1, 0, 1>>),
         TrainRowAt(1, <<2015, 7, 30>>, 0, <<0, 0, 1>>),
         TrainRowAt(2, <<2015, 7, 30>>, 4, <<0, 1, 0>>) >>,
      << TrainRowAt(1, <<2015, 7, 30>>, 6, <<0, 0, 1>>) >> }

\* a sales file that repeats a row
TrainRepeated ==
    << TrainRowAt(1, <<2015, 7, 30>>, 6, <<0, 0, 1>>),
       TrainRowAt(1, <<2015, 7, 30>>, 6, <<0, 0, 1>>) >>

\* the test files, dated after the sales files
TestChoices ==
    { << TestRowAt(1, 1, <<2015, 8, 3>>, <<0, 0, 1>>),
         TestRowAt(2, 2, <<2015, 8, 3>>, <<0, 0, 0>>) >>,
      << >> }

\* test files that hold a (store, date) of the sales files
TestOverlapping ==
    { << TestRowAt(1, 1, <<2015, 7, 31>>, <<1, 0, 0>>),
         TestRowAt(2, 1, <<2015, 8, 3>>, <<0, 0, 1>>) >>,
      << TestRowAt(1, 1, <<2015, 7, 30>>, <<0, 1, 1>>) >> }

\* what sets the auxiliary tables apart from the plain case: a repeated
\* key, a missing row, or two state names of one state
Oddities ==
    {"none", "store twice", "store absent", "store_states twice",
     "store_states absent", "state_names twice", "two names of a state",
     "googletrend twice", "trend_de twice", "weather twice",
     "weather absent"}

\* the auxiliary tables of the case odd
AuxTables(odd) ==
    LET more(o, rows) == IF odd = o THEN rows ELSE <<>>
        less(o, rows) == IF odd = o THEN <<>> ELSE rows
        gt == [cols |-> <<"file", "week", "trend", "Date", "State">> \o DateLabels,
               rows |-> << TrendRow("Rossmann_DE_SN", "2015-08-02 - 2015-08-08",
                                    70, <<2015, 8, 2>>),
                           TrendRow("Rossmann_DE_SN", "2015-08-09 - 2015-08-15",
                                    75, <<2015, 8, 9>>),
                           TrendRow("Rossmann_DE_NI", "2015-08-02 - 2015-08-08",
                                    60, <<2015, 8, 2>>),
                           TrendRow("Rossmann_DE", "2015-08-02 - 2015-08-08",
                                    65, <<2015, 8, 2>>),
                           TrendRow("Rossmann_DE", "2015-08-09 - 2015-08-15",
                                    66, <<2015, 8, 9>>) >>
                   \o more("googletrend twice",
                        << TrendRow("Rossmann_DE_SN", "2015-08-02 - 2015-08-08",
                                    71, <<2015, 8, 2>>) >>)
                   \o more("trend_de twice",
                        << TrendRow("Rossmann_DE", "2015-08-02 - 2015-08-08",
                                    64, <<2015, 8, 2>>) >>)]
    IN  [store |->
            [cols |-> <<"Store", "CompetitionOpenSinceMonth",
                       "CompetitionOpenSinceYear", "Promo2SinceWeek",
                       "Promo2SinceYear">>,
             rows |-> << <<V(1), V(9), V(2008), NA, NA>> >>
                 \o less("store absent", << <<V(2), NA, NA, V(14), V(2011)>> >>)
                 \o more("store twice", << <<V(1), V(3), V(2014), NA, NA>> >>)],
         store_states |->
            [cols |-> <<"Store", "State">>,
             rows |-> << <<V(1), V("SN")>> >>
                 \o less("store_states absent", << <<V(2), V("HB,NI")>> >>)
                 \o more("store_states twice", << <<V(1), V("BY")>> >>)],
         state_names |->
            [cols |-> <<"StateName", "State">>,
             rows |-> << <<V("Sachsen"), V("SN")>>,
                         <<V("NiedersachsenBremen"), V("HB,NI")>> >>
                 \o more("state_names twice", << <<V("Sachsen"), V("SN")>> >>)
                 \o more("two names of a state", << <<V("Saxony"), V("SN")>> >>)],
         googletrend |-> gt,
         trend_de |-> TrendDE(gt),
         weather |->
            [cols |-> <<"file", "Date", "Max_TemperatureC">> \o DateLabels,
             rows |-> << WeatherRow("Sachsen", <<2015, 7, 30>>, 25),
                         WeatherRow("Sachsen", <<2015, 7, 31>>, 26),
                         WeatherRow("NiedersachsenBremen", <<2015, 7, 30>>, 28) >>
                 \o less("weather absent",
                        << WeatherRow("Sachsen", <<2015, 8, 3>>, 20),
                           WeatherRow("NiedersachsenBremen", <<2015, 8, 3>>, 22) >>)
                 \o more("weather twice",
                        << WeatherRow("Sachsen", <<2015, 7, 30>>, 24) >>)
                 \o more("two names of a state",
                        << WeatherRow("Saxony", <<2015, 7, 30>>, 23) >>)]]

\* the inputs differ from the plain case in at most one respect
InputCases ==
    {[train |-> tr, test |-> te, aux |-> AuxTables(odd)] :
        tr \in TrainChoices, te \in TestChoices, odd \in Oddities}
    \cup {[train |-> TrainRepeated, test |-> te, aux |-> AuxTables("none")] :
        te \in TestChoices}
    \cup {[train |-> tr, test |-> te, aux |-> AuxTables("none")] :
        tr \in TrainChoices, te \in TestOverlapping}

Init ==
    /\ MergeIdle
    /\ LabelLoopIdle
    /\ pc = 9
    /\ \E case \in InputCases :
          /\ train = [cols |-> TrainCols \o DateLabels, rows |-> case.train]
          /\ test = [cols |-> TestCols \o DateLabels, rows |-> case.test]
          /\ store = case.aux.store
          /\ store_states = case.aux.store_states
          /\ state_names = case.aux.state_names
          /\ googletrend = case.aux.googletrend
          /\ trend_de = case.aux.trend_de
          /\ weather = case.aux.weather
    /\ train_df = EmptyFrame /\ test_df = EmptyFrame
    /\ df = EmptyFrame /\ bwd = EmptyFrame /\ fwd = EmptyFrame
    /\ valid_df = EmptyFrame
    /\ files = {}
    /\ start = [train_df |-> EmptyFrame, test_df |-> EmptyFrame]

Next ==
    \/ Cell9 \/ Cell10 \/ Cell11 \/ Cell12 \/ Cell13
    \/ Cell14 \/ Cell15 \/ Cell16 \/ Cell17 \/ Cell18 \/ Cell19
    \/ Cell20 \/ Cell21 \/ Cell22 \/ Cell23 \/ Cell24 \/ Cell25 \/ Cell26
    \/ Cell27 \/ Cell28 \/ Cell29

Spec == Init /\ [][Next]_vars


-----------------------------------------------------------------------------
(* Row preservation through the joins of cells 10-13 and 25-26 *)

\* no two rows of t carry the same key, a missing value counting as a value
UniqueOn(t, keys) ==
    \A a, b \in RowsOf(t) : KeyOf(t, a, keys) = KeyOf(t, b, keys) => a = b

\* every auxiliary table has at most one row per key it is joined on; store
\* and weather are read as cell 9 leaves them
AuxUnique ==
    /\ UniqueOn(store_states, <<"Store">>)
    /\ UniqueOn(state_names, <<"StateName">>)
    /\ UniqueOn(store, <<"Store">>)
    /\ UniqueOn(googletrend, <<"State", "Year", "Week">>)
    /\ UniqueOn(trend_de, <<"Year", "Week">>)
    /\ UniqueOn(weather, <<"State", "Date">>)

\* no (store, date) of the sales table occurs in the test table
NoSharedStoreDate ==
    \A a \in RowsOf(train) : \A b \in RowsOf(test) :
        KeyOf(train, a, <<"Store", "Date">>) # KeyOf(test, b, <<"Store", "Date">>)

\* t holds the rows of orig, one for one and in order, with the cells of
\* orig's columns unchanged
RowsKept(orig, t) ==
    /\ NRows(t) = NRows(orig)
    /\ \A r \in RowsOf(orig) : \A c \in 1..Len(orig.cols) :
          HasCol(t, orig.cols[c]) /\ Cell(t, r, orig.cols[c]) = orig.rows[r][c]

\* C4 as stated: when every auxiliary table is unique on its join key and
\* sales and test are each unique on (store, date), train_df and test_df hold
\* exactly the rows of train and test after every cell from the store join
\* to the join back of the union table.
C4_RowsKeptAsStated ==
    (pc \in 11..27 /\ AuxUnique /\ UniqueStoreDate(train) /\ UniqueStoreDate(test)) =>
        RowsKept(train, train_df) /\ RowsKept(test, test_df)

\* C4 (amended): the same, provided also that no (store, date) pair occurs
\* in both the sales table and the test table.
C4_RowsKept ==
    (pc \in 11..27 /\ AuxUnique /\ UniqueStoreDate(train) /\ UniqueStoreDate(test)
        /\ NoSharedStoreDate) =>
        RowsKept(train, train_df) /\ RowsKept(test, test_df)

\* the last join is done: three sales rows and two test rows came through
\* with the rolling sums beside them
C4_Witness ==
    /\ pc = 27
    /\ AuxUnique /\ UniqueStoreDate(train) /\ UniqueStoreDate(test)
    /\ NoSharedStoreDate
    /\ NRows(train) = 3 /\ NRows(test) = 2
    /\ RowsKept(train, train_df) /\ RowsKept(test, test_df)
    /\ HasCol(train_df, "Promo_bw") /\ HasCol(test_df, "Promo_fw")
    /\ HasCol(train_df, "Max_TemperatureC") /\ HasCol(train_df, "trend_DE")


-----------------------------------------------------------------------------
(* The split on its own: cells 27-29 on tables of up to MaxSplitRows rows *)

MaxSplitRows == 9

\* the date of row i of n: falling as in the sales file, in pairs of equal
\* dates, or all on one day
SplitDate(kind, n, i) ==
    IF kind = "falling" THEN n - i + 1
    ELSE IF kind = "pairs" THEN (n - i) \div 2 + 1
    ELSE 1

\* the sales of row i of n: every store open, every third row closed, the
\* first and the last row closed, or every row closed
SplitSales(kind, n, i) ==
    IF kind = "open" THEN 5 + i
    ELSE IF kind = "third closed" THEN (IF i % 3 = 0 THEN 0 ELSE 5 + i)
    ELSE IF kind = "ends closed" THEN (IF i \in {1, n} THEN 0 ELSE 5 + i)
    ELSE 0

\* train_df as cell 27 may find it, its columns cut down to those the cells
\* 27-28 read and a row number in Customers
SplitFrames ==
    {[cols |-> <<"Store", "Date", "Sales", "Customers">>,
      rows |-> [i \in 1..n |-> <<V(1), V(SplitDate(dk, n, i)),
                                 V(SplitSales(sk, n, i)), V(i)>>]] :
        n \in 0..MaxSplitRows,
        dk \in {"falling", "pairs", "one day"},
        sk \in {"open", "third closed", "ends closed", "closed"}}

SplitInit ==
    /\ MergeIdle
    /\ LabelLoopIdle
    /\ pc = 27
    /\ train = EmptyFrame /\ test = EmptyFrame /\ store = EmptyFrame
    /\ store_states = EmptyFrame /\ state_names = EmptyFrame
    /\ googletrend = EmptyFrame /\ weather = EmptyFrame
    /\ trend_de = EmptyFrame
    /\ train_df \in SplitFrames
    /\ test_df = [cols |-> <<"Id", "Store", "Date">>,
                  rows |-> << <<V(1), V(1), V(20)>> >>]
    /\ df = EmptyFrame /\ bwd = EmptyFrame /\ fwd = EmptyFrame
    /\ valid_df = EmptyFrame
    /\ files = {}
    /\ start = [train_df |-> train_df, test_df |-> test_df]

SplitNext == Cell27 \/ Cell28 \/ Cell29

SpecSplit == SplitInit /\ [][SplitNext]_vars

-----------------------------------------------------------------------------
(* Properties of the filter and the split *)

\* the rows of the table cell 27 found whose Sales is not 0
PostFilterRows ==
    SelectIdx(start.train_df.rows,
        {r \in RowsOf(start.train_df) : Cell(start.train_df, r, "Sales") # V(0)}, 1)

\* how often the row x occurs among rows
Occurrences(rows, x) == Cardinality({i \in 1..Len(rows) : rows[i] = x})

\* the table of the output file name
OutputTable(name) ==
    (CHOOSE f \in files : f.dir = "OUTPUT_DATA_DIR" /\ f.name = name).table

\* C11 as stated: with N rows left after the zero-sales filter, the
\* validation table has floor(VALID_FRAC * N) rows and the final training
\* table the other N - floor(VALID_FRAC * N), for every N >= 0.
C11_SplitSizes ==
    pc >= 29 =>
        LET N == Len(PostFilterRows)
        IN  /\ NRows(valid_df) = (ValidFracPercent * N) \div 100
            /\ NRows(train_df) = N - (ValidFracPercent * N) \div 100

\* C12: after the split every post-filter training row is in exactly one of
\* the final training table and the validation table, and neither table holds
\* any other row.
C12_Partition ==
    pc >= 29 =>
        \A x \in Range(PostFilterRows) \cup Range(train_df.rows)
                    \cup Range(valid_df.rows) :
            Occurrences(train_df.rows, x) + Occurrences(valid_df.rows, x)
                = Occurrences(PostFilterRows, x)

\* nine rows in falling date order, all with sales: two go to validation and
\* seven stay
C12_Witness ==
    /\ pc >= 29
    /\ Len(PostFilterRows) = 9
    /\ NRows(valid_df) = 2 /\ NRows(train_df) = 7
    /\ DateAt(start.train_df, 1) = 9

\* C13: after the split every validation row is dated on or after every row
\* of the final training table, and each of the two tables is in ascending
\* date order.
C13_ValidationLatest ==
    pc >= 29 =>
        /\ \A v \in RowsOf(valid_df) : \A t \in RowsOf(train_df) :
              DateAt(valid_df, v) >= DateAt(train_df, t)
        /\ \A r \in 1..(NRows(train_df) - 1) :
              DateAt(train_df, r) <= DateAt(train_df, r + 1)
        /\ \A r \in 1..(NRows(valid_df) - 1) :
              DateAt(valid_df, r) <= DateAt(valid_df, r + 1)

\* eight rows given with the latest date first: the two validation rows are
\* those of days 7 and 8, the training rows run from day 1 to day 6
C13_Witness ==
    /\ pc >= 29
    /\ NRows(start.train_df) = 8 /\ Len(PostFilterRows) = 8
    /\ DateAt(start.train_df, 1) = 8 /\ DateAt(start.train_df, 8) = 1
    /\ Column(valid_df, "Date") = <<V(7), V(8)>>
    /\ Column(train_df, "Date") = <<V(1), V(2), V(3), V(4), V(5), V(6)>>

\* C14: no row with Sales = 0 is in the training or the validation table, nor
\* in the files written from them; every row with Sales other than 0 is in
\* one of them; and the validation count, where the split takes a fraction,
\* is the fraction of the rows left after the filter.
C14_NoZeroSales ==
    pc >= 29 =>
        /\ \A r \in RowsOf(train_df) : Cell(train_df, r, "Sales") # V(0)
        /\ \A r \in RowsOf(valid_df) : Cell(valid_df, r, "Sales") # V(0)
        /\ \A r \in RowsOf(start.train_df) :
              Cell(start.train_df, r, "Sales") # V(0) =>
                  start.train_df.rows[r]
                      \in Range(train_df.rows) \cup Range(valid_df.rows)
        /\ (ValidFracPercent * Len(PostFilterRows)) \div 100 > 0 =>
              NRows(valid_df) = (ValidFracPercent * Len(PostFilterRows)) \div 100
        /\ pc = 30 =>
              /\ OutputTable("train.csv") = train_df
              /\ OutputTable("valid.csv") = valid_df

\* nine rows, every third closed: six are left, of which one goes to
\* validation (two would, were the nine counted), and the files are written
C14_Witness ==
    /\ pc = 30
    /\ NRows(start.train_df) = 9 /\ Len(PostFilterRows) = 6
    /\ NRows(valid_df) = 1 /\ NRows(train_df) = 5
    /\ NRows(OutputTable("train.csv")) = 5
    /\ NRows(OutputTable("valid.csv")) = 1


-----------------------------------------------------------------------------
(* The order of the joins of cells 9-13 *)

\* a step that puts the column c onto the sales table and the test table
JoinsOnto(c) ==
    /\ ~HasCol(train_df, c) /\ HasCol(train_df', c)
    /\ ~HasCol(test_df, c) /\ HasCol(test_df', c)

\* the order of the joins from the state trend on: the state trend finds the
\* store metadata and its state in place, the national trend (suffix _DE)
\* finds the state trend, and the weather, its state resolved through the
\* state-name table, finds the national trend
LaterJoinsInOrder ==
    /\ JoinsOnto("trend") =>
          /\ HasCol(train_df, "CompetitionOpenSinceYear")
          /\ HasCol(train_df, "State")
          /\ HasCol(store, "State")
    /\ JoinsOnto("trend_DE") => HasCol(train_df, "trend")
    /\ JoinsOnto("Max_TemperatureC") =>
          /\ HasCol(train_df, "trend_DE")
          /\ HasCol(weather, "State")

\* C15 as stated: the store metadata is joined onto sales/test first and the
\* state-store mapping onto store only then, followed by the state trend, the
\* national trend and the weather.
C15_StoreJoinFirst ==
    [][ /\ (~HasCol(store, "State") /\ HasCol(store', "State")) =>
              /\ HasCol(train_df, "CompetitionOpenSinceYear")
              /\ HasCol(test_df, "CompetitionOpenSinceYear")
        /\ LaterJoinsInOrder ]_vars

\* C15: the state-store mapping is joined onto store first, and the store
\* metadata onto sales/test only then, so that sales/test get the state with
\* it; then come the state trend by (state, year, week), the national trend by
\* (year, week) with its suffix, and the weather by (state, date).
C15_MappingJoinFirst ==
    [][ /\ JoinsOnto("CompetitionOpenSinceYear") =>
              /\ HasCol(store, "State")
              /\ HasCol(train_df', "State") /\ HasCol(test_df', "State")
        /\ LaterJoinsInOrder ]_vars

\* all five joins are done and a sales row has found a partner in each
C15_Witness ==
    /\ pc = 14
    /\ \E r \in RowsOf(train_df) :
          /\ Cell(train_df, r, "CompetitionOpenSinceYear") # NA
          /\ Cell(train_df, r, "State") # NA
          /\ Cell(train_df, r, "trend") # NA
          /\ Cell(train_df, r, "trend_DE") # NA
          /\ Cell(train_df, r, "Max_TemperatureC") # NA


-----------------------------------------------------------------------------
(* The columns of the output files *)

\* the derived columns the training notebook lists among CATEGORICAL_COLUMNS
\* and CONTINUOUS_COLUMNS
DerivedFeatures ==
    {"Year", "Month", "Day", "Week", "CompetitionMonthsOpen", "Promo2Weeks",
     "trend_DE", "AfterStateHoliday", "BeforeStateHoliday",
     "Promo_fw", "Promo_bw", "StateHoliday_fw", "StateHoliday_bw",
     "SchoolHoliday_fw", "SchoolHoliday_bw"}

\* C16: once the files are written, each derived feature column of the
\* training notebook, and the state-level column trend, is a column of the
\* table of train.csv and of the table of valid.csv.
C16_FeatureColumns ==
    pc = 30 =>
        \A name \in {"train.csv", "valid.csv"} :
            \A c \in DerivedFeatures \cup {"trend"} :
                HasCol(OutputTable(name), c)

\* files written from a run in which both tables have rows and the features
\* have values
C16_Witness ==
    /\ pc = 30
    /\ NRows(OutputTable("train.csv")) > 0
    /\ NRows(OutputTable("valid.csv")) > 0
    /\ \E r \in RowsOf(OutputTable("valid.csv")) :
          \A c \in DerivedFeatures \cup {"trend"} :
              Cell(OutputTable("valid.csv"), r, c) # NA


-----------------------------------------------------------------------------
(* Cells 4-7: loading the seven tables and preparing them, and the whole    *)
(* run from the input files to the output files                              *)

\* the order in which cell 4 reads the tables, lines 74-80
LoadOrder ==
    <<"train", "store", "store_states", "state_names", "googletrend",
      "weather", "test">>

\* the file table_name.csv exists in INPUT_DATA_DIR
Present(fs, table_name) ==
    \E f \in fs : f.dir = "INPUT_DATA_DIR" /\ f.name = table_name \o ".csv"

\* read_table, lines 71-72
ReadTable(fs, table_name) ==
    (CHOOSE f \in fs :
        f.dir = "INPUT_DATA_DIR" /\ f.name = table_name \o ".csv").table

\* the position in LoadOrder of the first table whose file is absent, 8 when
\* all seven are there: the read_table call that raises
FirstAbsent(fs) ==
    Min({k \in 1..7 : ~Present(fs, LoadOrder[k])} \cup {8})

\* the value of the k-th variable after cell 4: assigned when every read up
\* to its own succeeded
LoadedAs(fs, k, before) ==
    IF k < FirstAbsent(fs) THEN ReadTable(fs, LoadOrder[k]) ELSE before

\* a load that goes on with empty tables where a file is absent
Cell4SkipsAbsent ==
    /\ pc = 4
    /\ train' = (IF Present(files, "train") THEN ReadTable(files, "train") ELSE train)
    /\ store' = (IF Present(files, "store") THEN ReadTable(files, "store") ELSE store)
    /\ store_states' = (IF Present(files, "store_states")
                        THEN ReadTable(files, "store_states") ELSE store_states)
    /\ state_names' = (IF Present(files, "state_names")
                       THEN ReadTable(files, "state_names") ELSE state_names)
    /\ googletrend' = (IF Present(files, "googletrend")
                       THEN ReadTable(files, "googletrend") ELSE googletrend)
    /\ weather' = (IF Present(files, "weather") THEN ReadTable(files, "weather") ELSE weather)
    /\ test' = (IF Present(files, "test") THEN ReadTable(files, "test") ELSE test)
    /\ pc' = 5
    /\ UNCHANGED <<mergeVars, trend_de, train_df, test_df, eventVars, outVars,
                   start, labelVars>>

\* cell 4: the seven reads in order; the first absent file raises, the run
\* ends there (pc = 0) with the tables read before it assigned
Cell4 ==
    /\ pc = 4
    /\ train' = LoadedAs(files, 1, train)
    /\ store' = LoadedAs(files, 2, store)
    /\ store_states' = LoadedAs(files, 3, store_states)
    /\ state_names' = LoadedAs(files, 4, state_names)
    /\ googletrend' = LoadedAs(files, 5, googletrend)
    /\ weather' = LoadedAs(files, 6, weather)
    /\ test' = LoadedAs(files, 7, test)
    /\ pc' = (IF FirstAbsent(files) = 8 THEN 5 ELSE 0)
    /\ UNCHANGED <<mergeVars, trend_de, train_df, test_df, eventVars, outVars,
                   start, labelVars>>

\* line 89: StateHoliday != '0', True written as 1 and False as 0
HolidayFlag(t) ==
    WithColumn(t, "StateHoliday",
        [r \in 1..NRows(t) |->
            V(IF Cell(t, r, "StateHoliday") # V("0") THEN 1 ELSE 0)])

Cell5 ==
    /\ pc = 5
    /\ train' = HolidayFlag(train)
    /\ test' = HolidayFlag(test)
    /\ pc' = 6
    /\ UNCHANGED <<mergeVars, store, store_states, state_names, googletrend,
                   weather, trend_de, train_df, test_df, eventVars, outVars,
                   start, labelVars>>

\* week.str.split(' - ', expand=True)[0], line 99: the text before the first
\* ' - ', all of it when there is none
SplitFirst(week) ==
    LET hits == {i \in 1..(Len(week) - 2) : SubSeq(week, i, i + 2) = " - "}
    IN  IF hits = {} THEN week ELSE SubSeq(week, 1, Min(hits) - 1)

Cell6 ==
    /\ pc = 6
    /\ googletrend' =
          WithColumn(
              WithColumn(googletrend, "Date",
                  [r \in 1..NRows(googletrend) |->
                      V(SplitFirst(Cell(googletrend, r, "week")[1]))]),
              "State",
              [r \in 1..NRows(googletrend) |->
                  TrendState(Cell(googletrend, r, "file")[1])])
    /\ trend_de' = TrendDE(googletrend')
    /\ pc' = 7
    /\ UNCHANGED <<mergeVars, train, test, store, store_states, state_names,
                   weather, train_df, test_df, eventVars, outVars, start, labelVars>>

\* the number written by the decimal digits of text
RECURSIVE Decimal(_)
Decimal(text) ==
    IF text = "" THEN 0
    ELSE 10 * Decimal(SubSeq(text, 1, Len(text) - 1))
         + (CHOOSE d \in 0..9 :
                SubSeq("0123456789", d + 1, d + 1)
                    = SubSeq(text, Len(text), Len(text)))

\* pd.to_datetime on a text of the form YYYY-MM-DD, line 113
ParseDate(text) ==
    <<Decimal(SubSeq(text, 1, 4)), Decimal(SubSeq(text, 6, 7)),
      Decimal(SubSeq(text, 9, 10))>>

\* the body of the loop of cell 7, lines 113-117, on one table
WithDateParts(t) ==
    LET parts == [r \in 1..NRows(t) |-> DateParts(ParseDate(Cell(t, r, "Date")[1]))]
        col(k) == [r \in 1..NRows(t) |-> parts[r][k]]
    IN  WithColumn(WithColumn(WithColumn(WithColumn(WithColumn(t,
            "Date", col(1)), "Year", col(2)), "Month", col(3)),
            "Week", col(4)), "Day", col(5))

Cell7 ==
    /\ pc = 7
    /\ weather' = WithDateParts(weather)
    /\ googletrend' = WithDateParts(googletrend)
    /\ train' = WithDateParts(train)
    /\ test' = WithDateParts(test)
    /\ trend_de' = WithDateParts(trend_de)
    /\ pc' = 9
    /\ UNCHANGED <<mergeVars, store, store_states, state_names, train_df,
                   test_df, eventVars, outVars, start, labelVars>>

\* the seven files as downloaded: five sales rows of two stores, one of a
\* closed day, and two test rows
InputFiles ==
    LET file(name, cols, rows) ==
            [dir |-> "INPUT_DATA_DIR", name |-> name,
             table |-> [cols |-> cols, rows |-> rows]]
    IN  { file("train.csv",
               <<"Store", "Date", "Sales", "Customers", "Promo",
                 "StateHoliday", "SchoolHoliday">>,
               << <<V(1), V("2015-07-31"), V(7), V(70), V(1), V("0"), V(1)>>,
                  <<V(2), V("2015-07-31"), V(5), V(50), V(1), V("a"), V(1)>>,
                  <<V(1), V("2015-07-30"), V(6), V(60), V(1), V("0"), V(0)>>,
                  <<V(2), V("2015-07-30"), V(4), V(40), V(0), V("0"), V(0)>>,
                  <<V(1), V("2015-07-29"), V(0), V(0), V(0), V("a"), V(0)>>,
                  <<V(2), V("2015-07-29"), V(3), V(30), V(0), V("0"), V(0)>> >>),
          file("store.csv",
               <<"Store", "CompetitionOpenSinceMonth",
                 "CompetitionOpenSinceYear", "Promo2SinceWeek",
                 "Promo2SinceYear">>,
               << <<V(1), V(9), V(2008), NA, NA>>,
                  <<V(2), NA, NA, V(14), V(2011)>> >>),
          file("store_states.csv", <<"Store", "State">>,
               << <<V(1), V("SN")>>, <<V(2), V("HB,NI")>> >>),
          file("state_names.csv", <<"StateName", "State">>,
               << <<V("Sachsen"), V("SN")>>,
                  <<V("NiedersachsenBremen"), V("HB,NI")>> >>),
          file("googletrend.csv", <<"file", "week", "trend">>,
               << <<V("Rossmann_DE_SN"), V("2015-07-26 - 2015-08-01"), V(70)>>,
                  <<V("Rossmann_DE_NI"), V("2015-07-26 - 2015-08-01"), V(60)>>,
                  <<V("Rossmann_DE"), V("2015-07-26 - 2015-08-01"), V(65)>> >>),
          file("weather.csv", <<"file", "Date", "Max_TemperatureC">>,
               << <<V("Sachsen"), V("2015-07-30"), V(25)>>,
                  <<V("Sachsen"), V("2015-07-31"), V(26)>>,
                  <<V("NiedersachsenBremen"), V("2015-07-30"), V(28)>> >>),
          file("test.csv",
               <<"Id", "Store", "Date", "Promo", "StateHoliday",
                 "SchoolHoliday">>,
               << <<V(1), V(1), V("2015-08-03"), V(1), V("0"), V(0)>>,
                  <<V(2), V(2), V("2015-08-03"), V(0), V("0"), V(0)>> >>) }

\* a run starts at cell 4 with any of the seven files absent, no table
\* loaded and nothing written
RunInit ==
    /\ MergeIdle
    /\ LabelLoopIdle
    /\ pc = 4
    /\ train = EmptyFrame /\ test = EmptyFrame /\ store = EmptyFrame
    /\ store_states = EmptyFrame /\ state_names = EmptyFrame
    /\ googletrend = EmptyFrame /\ weather = EmptyFrame
    /\ trend_de = EmptyFrame
    /\ train_df = EmptyFrame /\ test_df = EmptyFrame
    /\ df = EmptyFrame /\ bwd = EmptyFrame /\ fwd = EmptyFrame
    /\ valid_df = EmptyFrame
    /\ files \in SUBSET InputFiles
    /\ start = [train_df |-> EmptyFrame, test_df |-> EmptyFrame]

RunNext == Cell4 \/ Cell5 \/ Cell6 \/ Cell7 \/ Next

SpecRun == RunInit /\ [][RunNext]_vars

\* the files written so far by cell 29
OutputFiles == {f \in files : f.dir = "OUTPUT_DATA_DIR"}

\* C17: when one of the seven input files is absent the run ends in cell 4
\* and no output file exists; and whenever an output file exists, every cell
\* up to the split has run and all three files are written.
C17_LoadOrNothing ==
    /\ (\E k \in 1..7 : ~Present(files, LoadOrder[k])) =>
          /\ pc \in {4, 0}
          /\ OutputFiles = {}
    /\ OutputFiles # {} =>
          /\ pc = 30
          /\ {f.name : f \in OutputFiles} = {"train.csv", "valid.csv", "test.csv"}
          /\ \A c \in DerivedFeatures : HasCol(OutputTable("train.csv"), c)
          /\ \A r \in RowsOf(OutputTable("train.csv")) :
                Cell(OutputTable("train.csv"), r, "Sales") # V(0)

\* the run has ended in cell 4 on the absent weather file, after reading the
\* five tables before it, and nothing is written
C17_Witness ==
    /\ pc = 0
    /\ ~Present(files, "weather") /\ Present(files, "test")
    /\ NRows(train) > 0 /\ NRows(googletrend) > 0
    /\ weather = EmptyFrame /\ test = EmptyFrame
    /\ OutputFiles = {}

\* a run with all seven files has written its three output files
C17_WitnessWritten ==
    /\ pc = 30
    /\ Cardinality(OutputFiles) = 3
    /\ NRows(OutputTable("train.csv")) > 0
    /\ NRows(OutputTable("valid.csv")) > 0


-----------------------------------------------------------------------------
(* The fills of cell 21 stay inside a store *)

\* the row whose date ffill (resp. bfill) hands to row r: the nearest row at
\* or before (resp. at or after) r whose date was kept in tmp
FillSourceBefore(t, r, field) == Max({q \in 1..r : CarryPoint(t, q, field)})

FillSourceAfter(t, r, field) ==
    Min({q \in r..NRows(t) : CarryPoint(t, q, field)})

\* C18: after cell 21, for each event and each row of the union, the nearest
\* row at or before it whose date was kept, and the nearest at or after it,
\* exist and belong to the row's own store, AfterE and BeforeE are the
\* distances to their dates, and neither is missing or negative.
C18_FillsInsideStore ==
    pc = 22 =>
        \A i \in 1..Len(EventFields) : \A r \in RowsOf(df) :
            LET field == EventFields[i]
                after == Cell(df, r, "After" \o field)
                before == Cell(df, r, "Before" \o field)
            IN  /\ \E q \in 1..r : CarryPoint(df, q, field)
                /\ \E q \in r..NRows(df) : CarryPoint(df, q, field)
                /\ SameStore(df, FillSourceBefore(df, r, field), r)
                /\ SameStore(df, FillSourceAfter(df, r, field), r)
                /\ after = V(DateAt(df, r)
                             - DateAt(df, FillSourceBefore(df, r, field)))
                /\ before = V(DateAt(df, FillSourceAfter(df, r, field))
                              - DateAt(df, r))
                /\ after # NA /\ after[1] >= 0
                /\ before # NA /\ before[1] >= 0

\* store 1 with days 1, 2, 3 and 10, store 2 with the single day 2, and no
\* school holiday anywhere: the row of store 2 follows day 10 of store 1 and
\* has both distances 0, and day 2 of store 1 is 1 after day 1 and 8 before
\* day 10
C18_Witness ==
    /\ pc = 22
    /\ NRows(df) = 5
    /\ Column(df, "Store") = <<V(1), V(1), V(1), V(1), V(2)>>
    /\ Column(df, "Date") = <<V(1), V(2), V(3), V(10), V(2)>>
    /\ \A r \in RowsOf(df) : ~EventOn(df, r, "SchoolHoliday")
    /\ Cell(df, 5, "AfterSchoolHoliday") = V(0)
    /\ Cell(df, 5, "BeforeSchoolHoliday") = V(0)
    /\ Cell(df, 2, "AfterSchoolHoliday") = V(1)
    /\ Cell(df, 2, "BeforeSchoolHoliday") = V(8)


-----------------------------------------------------------------------------
(* The join without suffix, whatever the labels *)

\* C19 as stated: after a merge without suffix every column of the left
\* frame is in the result under its own label with the left values, and
\* every column of the right frame whose label is not a left label is in the
\* result with the values of the matched right row, missing where the left
\* row is unmatched.
C19_NoSuffixKeepsLeft ==
    (mpc = "merged" /\ msuffix = None) =>
        /\ \A c \in Range(obj.cols) :
              /\ HasCol(mresult, c)
              /\ \A n \in 1..NRows(mresult) :
                    Cell(mresult, n, c) = Cell(obj, MergePairs[n][1], c)
        /\ \A d \in Range(mright.cols) \ Range(obj.cols) :
              /\ HasCol(mresult, d)
              /\ \A n \in 1..NRows(mresult) :
                    Cell(mresult, n, d)
                        = IF MergePairs[n][2] = 0 THEN NA
                          ELSE Cell(mright, MergePairs[n][2], d)


-----------------------------------------------------------------------------
(* The columns the three output files share *)

\* the labels of the table of the output file name
OutputLabels(name) == Range(OutputTable(name).cols)

\* the event-proximity and rolling-sum columns of cells 21-25
EventColumns ==
    UNION {{"After" \o EventFields[i], "Before" \o EventFields[i],
            EventFields[i] \o "_bw", EventFields[i] \o "_fw"} :
                i \in 1..Len(EventFields)}

\* C20: the three output tables carry the same set of labels, which holds
\* every label of the sales table and of the test table as joined before the
\* union and the event-proximity and rolling-sum labels; so the test output
\* has Sales and Customers and the train and valid outputs have Id; and when
\* no (store, date) is shared by sales and test, Id is missing in every row of
\* train and valid, and Sales and Customers in every row of test.
C20_SameColumns ==
    pc = 30 =>
        /\ OutputLabels("train.csv") = OutputLabels("valid.csv")
        /\ OutputLabels("train.csv") = OutputLabels("test.csv")
        /\ OutputLabels("test.csv") = Range(df.cols)
        /\ Range(train.cols) \cup Range(test.cols) \cup EventColumns
              \subseteq OutputLabels("test.csv")
        /\ {"Sales", "Customers"} \subseteq OutputLabels("test.csv")
        /\ "Id" \in OutputLabels("train.csv") \cap OutputLabels("valid.csv")
        /\ NoSharedStoreDate =>
              /\ \A name \in {"train.csv", "valid.csv"} :
                    \A r \in RowsOf(OutputTable(name)) :
                        Cell(OutputTable(name), r, "Id") = NA
              /\ \A r \in RowsOf(OutputTable("test.csv")) :
                    /\ Cell(OutputTable("test.csv"), r, "Sales") = NA
                    /\ Cell(OutputTable("test.csv"), r, "Customers") = NA

\* files written from sales and test tables that share no (store, date):
\* each of the two test rows lacks Sales and Customers, the validation rows
\* lack Id
C20_Witness ==
    /\ pc = 30
    /\ NoSharedStoreDate
    /\ NRows(OutputTable("test.csv")) = 2
    /\ NRows(OutputTable("valid.csv")) > 0
    /\ \A r \in RowsOf(OutputTable("test.csv")) :
          /\ Cell(OutputTable("test.csv"), r, "Sales") = NA
          /\ Cell(OutputTable("test.csv"), r, "Id") # NA
    /\ \A r \in RowsOf(OutputTable("valid.csv")) :
          /\ Cell(OutputTable("valid.csv"), r, "Id") = NA
          /\ Cell(OutputTable("valid.csv"), r, "Sales") # NA


-----------------------------------------------------------------------------
(* The training notebook, cell 10: the loop that removes the label column   *)
(* from the final continuous columns                                         *)

MaxColumns == 4

\* LABEL_COLUMNS = ['Sales']
LABEL_COLUMNS == <<"Sales">>

\* the list loses its first entry, whatever it is
RemoveHead(list, x) == Tail(list)

\* list.remove(x) on a list that holds x: the first occurrence goes
Remove(list, x) ==
    LET first == Min({i \in 1..Len(list) : list[i] = x})
    IN  SubSeq(list, 1, first - 1) \o SubSeq(list, first + 1, Len(list))

\* a pass of the loop in which remove finds the label
RemoveLabel ==
    /\ tpc = "loop"
    /\ LABEL_COLUMNS[1] \in Range(continuous)
    /\ continuous' = Remove(continuous, LABEL_COLUMNS[1])
    /\ tpc' = "loop"
    /\ UNCHANGED <<mergeVars, pc, inputVars, train_df, test_df, eventVars,
                   outVars, start>>

\* the pass in which remove raises ValueError: break
LabelAbsent ==
    /\ tpc = "loop"
    /\ LABEL_COLUMNS[1] \notin Range(continuous)
    /\ tpc' = "done"
    /\ UNCHANGED <<mergeVars, pc, inputVars, train_df, test_df, eventVars,
                   outVars, start, continuous>>

\* the continuous columns as create_final_cols may leave them: any list of
\* up to MaxColumns names, the label any number of times, a name repeated
ContinuousLists ==
    UNION {[1..n -> {"Sales", "trend", "Promo"}] : n \in 0..MaxColumns}

LabelsInit ==
    /\ MergeIdle
    /\ pc = 0
    /\ train = EmptyFrame /\ test = EmptyFrame /\ store = EmptyFrame
    /\ store_states = EmptyFrame /\ state_names = EmptyFrame
    /\ googletrend = EmptyFrame /\ weather = EmptyFrame
    /\ trend_de = EmptyFrame
    /\ train_df = EmptyFrame /\ test_df = EmptyFrame
    /\ df = EmptyFrame /\ bwd = EmptyFrame /\ fwd = EmptyFrame
    /\ valid_df = EmptyFrame
    /\ files = {}
    /\ tpc = "loop"
    /\ continuous \in ContinuousLists
    /\ start = [continuous |-> continuous]

LabelsNext == RemoveLabel \/ LabelAbsent

\* the notebook keeps running: a pass that can be taken is taken
SpecLabels == LabelsInit /\ [][LabelsNext]_vars /\ WF_vars(LabelsNext)

\* the entries of list other than x, in their order
Without(list, x) ==
    SelectIdx(list, {i \in 1..Len(list) : list[i] # x}, 1)

\* C21: the loop ends for every list, and from its end on the list holds no
\* 'Sales' and is the list the loop found with its 'Sales' entries taken
\* out, the other entries in their order.
C21_LoopEndsWithoutLabel ==
    <>[](/\ tpc = "done"
         /\ "Sales" \notin Range(continuous)
         /\ continuous = Without(start.continuous, "Sales"))

\* the loop has ended on a list that held the label twice, between and
\* around two other names
C21_Witness ==
    /\ tpc = "done"
    /\ start.continuous = <<"Sales", "trend", "Sales", "Promo">>
    /\ continuous = <<"trend", "Promo">>

=============================================================================
